---- MODULE Spec2Model ----
(***************************************************************************)
(* A model of the hand-written JSON and TOML codecs of                     *)
(* github.com/saneechka/serializer:                                        *)
(*   json: src/json/serializer.go   (lexer, parser, Marshal, Unmarshal)    *)
(*   toml: src/toml/toml_test.go    (lexer, parser, Marshal, Unmarshal)    *)
(* and of the factory of package serializer: src/toml/serializer.go        *)
(* (New, NewGin).                                                          *)
(*                                                                         *)
(* Text is a sequence of one-character strings.  Go indexes strings from   *)
(* 0, so the byte input[i] of the source is input[i+1] here; the cursor    *)
(* pos keeps the source's 0-based value.                                   *)
(*                                                                         *)
(* A native value (reflect.Value) is a record tagged with kind; its        *)
(* static type (reflect.Type) is a record tagged with kind too.  A parsed  *)
(* value (interface{} built by the parsers) is a record tagged with k.     *)
(***************************************************************************)
EXTENDS Integers, Sequences, FiniteSets, TLC

VARIABLES codec, op, orig, data, doc, pre, dest, tree, ret, stage, recent, lexer, parser

vars == <<codec, op, orig, data, doc, pre, dest, tree, ret, stage, recent, lexer, parser>>

(***************************************************************************)
(* Characters and the strings/strconv/unicode functions the codecs call.   *)
(***************************************************************************)
\* The member of a one-element set.  A result the code holds in a local
\* variable is bound as the member of {call}, so that the call is written,
\* and evaluated, once.
The(S) == CHOOSE x \in S : TRUE

DigitChars == <<"0", "1", "2", "3", "4", "5", "6", "7", "8", "9">>

\* unicode.IsDigit on a byte
IsDigit(c) == \E d \in 1..10 : DigitChars[d] = c

\* unicode.IsSpace on a byte (the ASCII members)
IsSpace(c) == c \in {" ", "\n", "\t", "\r", "\f"}

DigitVal(c) == (CHOOSE d \in 1..10 : DigitChars[d] = c) - 1

RECURSIVE NatToStr(_)
NatToStr(n) ==
    IF n < 10 THEN <<DigitChars[n + 1]>>
    ELSE NatToStr(n \div 10) \o <<DigitChars[(n % 10) + 1]>>

RECURSIVE StrToNat(_)
StrToNat(s) ==
    IF s = <<>> THEN 0
    ELSE 10 * StrToNat(SubSeq(s, 1, Len(s) - 1)) + DigitVal(s[Len(s)])

RECURSIVE Pow10(_)
Pow10(n) == IF n = 0 THEN 1 ELSE 10 * Pow10(n - 1)

AllDigits(s) == \A j \in 1..Len(s) : IsDigit(s[j])

\* strings.Contains(s, c) for a one-byte c
Contains(s, c) == \E j \in 1..Len(s) : s[j] = c

\* strings.Index for a set of one-byte needles; 0 when absent (1-based)
IndexAny(s, cs) ==
    IF \E j \in 1..Len(s) : s[j] \in cs
    THEN CHOOSE j \in 1..Len(s) : s[j] \in cs /\ \A h \in 1..(j - 1) : s[h] \notin cs
    ELSE 0

\* strings.ReplaceAll(s, old, new) for a one-byte old
RECURSIVE ReplaceAll(_, _, _)
ReplaceAll(s, old, new) ==
    IF s = <<>> THEN <<>>
    ELSE (IF Head(s) = old THEN new ELSE <<Head(s)>>) \o ReplaceAll(Tail(s), old, new)

\* strings.Join(parts, sep)
RECURSIVE Join(_, _)
Join(parts, sep) ==
    IF parts = <<>> THEN <<>>
    ELSE IF Len(parts) = 1 THEN parts[1]
    ELSE parts[1] \o sep \o Join(Tail(parts), sep)

\* strings.Split(tag, ",")[0]
SplitFirst(tag) ==
    LET cpos == IndexAny(tag, {","})
    IN  IF cpos = 0 THEN tag ELSE SubSeq(tag, 1, cpos - 1)

\* strconv.FormatInt(i, 10)
FormatInt(i) == IF i < 0 THEN <<"-">> \o NatToStr(-i) ELSE NatToStr(i)

\* strconv.FormatUint(u, 10)
FormatUint(u) == NatToStr(u)

\* strconv.FormatBool
FormatBool(b) == IF b THEN <<"t", "r", "u", "e">> ELSE <<"f", "a", "l", "s", "e">>

(***************************************************************************)
(* A float64 is held as an exact decimal: (-1)^neg * m * 10^e, m a natural *)
(* number not divisible by 10 unless it is 0 (then e = 0).  The decimals   *)
(* of the model have few digits, for which the shortest decimal that       *)
(* FormatFloat(-1) prints is the decimal itself.                           *)
(***************************************************************************)
RECURSIVE NormFloat(_, _, _)
NormFloat(neg, m, e) ==
    IF m = 0 THEN [neg |-> neg, m |-> 0, e |-> 0]
    ELSE IF m % 10 = 0 THEN NormFloat(neg, m \div 10, e + 1)
    ELSE [neg |-> neg, m |-> m, e |-> e]

\* Go's == on float64 (0 and -0 are equal)
FloatEq(f, g) == (f.m = 0 /\ g.m = 0) \/ f = g

\* strconv.FormatFloat(f, 'f', -1, 64)
FormatFloat(f) ==
    The({(IF f.neg THEN <<"-">> ELSE <<>>) \o
         (IF f.e >= 0 THEN ds \o [j \in 1..(IF f.m = 0 THEN 0 ELSE f.e) |-> "0"]
          ELSE The({SubSeq(pad, 1, Len(pad) + f.e) \o <<".">>
                        \o SubSeq(pad, Len(pad) + f.e + 1, Len(pad)) :
                    pad \in {IF Len(ds) > -f.e THEN ds
                             ELSE [j \in 1..(1 - f.e - Len(ds)) |-> "0"] \o ds}})) :
         ds \in {NatToStr(f.m)}})

\* strconv.ParseInt(s, 10, 64): optional sign, then one or more digits
ParseInt(s) ==
    The({IF body = <<>> \/ ~AllDigits(body) THEN [ok |-> FALSE, i |-> 0]
         ELSE The({[ok |-> TRUE, i |-> IF s[1] = "-" THEN -n ELSE n] :
                   n \in {StrToNat(body)}}) :
         body \in {IF s # <<>> /\ s[1] \in {"+", "-"} THEN Tail(s) ELSE s}})

\* strconv.ParseFloat(s, 64) on the decimal forms a number lexeme can take:
\* sign, digits with an optional point (at least one digit), and an
\* optional exponent e/E with optional sign and one or more digits
ParseFloat(s) ==
    The({The({The({The({The({
        IF ~AllDigits(ip) \/ ~AllDigits(fp) \/ Len(ip) + Len(fp) = 0
           \/ (epos # 0 /\ ~ex.ok)
        THEN [ok |-> FALSE, f |-> NormFloat(FALSE, 0, 0)]
        ELSE [ok |-> TRUE,
              f  |-> NormFloat(s[1] = "-", StrToNat(ip \o fp),
                               (IF epos = 0 THEN 0 ELSE ex.i) - Len(fp))] :
            ip \in {IF dpos = 0 THEN mant ELSE SubSeq(mant, 1, dpos - 1)},
            fp \in {IF dpos = 0 THEN <<>> ELSE SubSeq(mant, dpos + 1, Len(mant))}}) :
          dpos \in {IndexAny(mant, {"."})}}) :
        mant \in {IF epos = 0 THEN body ELSE SubSeq(body, 1, epos - 1)},
        ex   \in {ParseInt(IF epos = 0 THEN <<>> ELSE SubSeq(body, epos + 1, Len(body)))}}) :
      epos \in {IndexAny(body, {"e", "E"})}}) :
    body \in {IF s # <<>> /\ s[1] \in {"+", "-"} THEN Tail(s) ELSE s}})

\* the conversion int64(f): truncation toward zero
TruncFloat(f) ==
    LET mag == IF f.e >= 0 THEN f.m * Pow10(f.e) ELSE f.m \div Pow10(-f.e)
    IN  IF f.neg THEN -mag ELSE mag

(***************************************************************************)
(* Static types (reflect.Type) and native values (reflect.Value).          *)
(* A struct field carries its declared name, its tags and whether it is    *)
(* exported; tag is a record with one entry per tag key.                   *)
(***************************************************************************)
TString == [kind |-> "string"]
TInt == [kind |-> "int"]
TUint == [kind |-> "uint"]
TFloat == [kind |-> "float"]
TBool == [kind |-> "bool"]
TFunc == [kind |-> "func"]
TInterface == [kind |-> "interface"]
TSlice(e) == [kind |-> "slice", elem |-> e]
TArray(n, e) == [kind |-> "array", len |-> n, elem |-> e]
TMap(e) == [kind |-> "map", elem |-> e]
TPtr(e) == [kind |-> "ptr", elem |-> e]
TStruct(fields) == [kind |-> "struct", fields |-> fields]
Field(name, jsonTag, tomlTag, exported, type) ==
    [name |-> name, tag |-> [json |-> jsonTag, toml |-> tomlTag],
     exported |-> exported, type |-> type]

VInvalid == [kind |-> "invalid"]
VStr(s) == [kind |-> "string", s |-> s]
VInt(i) == [kind |-> "int", i |-> i]
\* a uint64 is w * 2^64 + i, with w = 1 and i < 0 for the values a negative
\* int64 wraps to
VUint(i) == [kind |-> "uint", i |-> i, w |-> IF i < 0 THEN 1 ELSE 0]
VFloat(f) == [kind |-> "float", f |-> f]
VBool(b) == [kind |-> "bool", b |-> b]
VFunc == [kind |-> "func"]
VSlice(elems) == [kind |-> "slice", nil |-> FALSE, elems |-> elems]
VNilSlice == [kind |-> "slice", nil |-> TRUE, elems |-> <<>>]
VArray(elems) == [kind |-> "array", elems |-> elems]
VMap(m) == [kind |-> "map", nil |-> FALSE, m |-> m]
VNilMap == [kind |-> "map", nil |-> TRUE, m |-> <<>>]
VStruct(fs) == [kind |-> "struct", fs |-> fs]
VPtr(elem) == [kind |-> "ptr", nil |-> FALSE, elem |-> elem]
VNilPtr == [kind |-> "ptr", nil |-> TRUE, elem |-> VInvalid]
\* an interface value holds its dynamic type and value
VIface(type, val) == [kind |-> "interface", nil |-> FALSE, type |-> type, elem |-> val]
VNilIface == [kind |-> "interface", nil |-> TRUE, type |-> TInterface, elem |-> VInvalid]

\* reflect.Zero(t)
RECURSIVE Zero(_)
Zero(t) ==
    CASE t.kind = "string" -> VStr(<<>>)
      [] t.kind = "int" -> VInt(0)
      [] t.kind = "uint" -> VUint(0)
      [] t.kind = "float" -> VFloat(NormFloat(FALSE, 0, 0))
      [] t.kind = "bool" -> VBool(FALSE)
      [] t.kind = "slice" -> VNilSlice
      [] t.kind = "array" -> VArray([j \in 1..t.len |-> Zero(t.elem)])
      [] t.kind = "map" -> VNilMap
      [] t.kind = "ptr" -> VNilPtr
      [] t.kind = "interface" -> VNilIface
      [] t.kind = "struct" -> VStruct([j \in 1..Len(t.fields) |-> Zero(t.fields[j].type)])
      [] OTHER -> [kind |-> t.kind]

\* reflect.DeepEqual, which the tests compare the round trip with
RECURSIVE DeepEqual(_, _)
DeepEqual(a, b) ==
    IF a.kind # b.kind THEN FALSE
    ELSE CASE a.kind = "float" -> FloatEq(a.f, b.f)
           [] a.kind \in {"slice", "array"} ->
                /\ a.kind = "slice" => a.nil = b.nil
                /\ Len(a.elems) = Len(b.elems)
                /\ \A j \in 1..Len(a.elems) : DeepEqual(a.elems[j], b.elems[j])
           [] a.kind = "map" ->
                /\ a.nil = b.nil
                /\ DOMAIN a.m = DOMAIN b.m
                /\ \A key \in DOMAIN a.m : DeepEqual(a.m[key], b.m[key])
           [] a.kind = "struct" ->
                /\ Len(a.fs) = Len(b.fs)
                /\ \A j \in 1..Len(a.fs) : DeepEqual(a.fs[j], b.fs[j])
           [] a.kind \in {"ptr", "interface"} ->
                /\ a.nil = b.nil
                /\ a.nil \/ DeepEqual(a.elem, b.elem)
           [] OTHER -> a = b

\* the order in which a range over a Go map visits its keys: one of the
\* enumerations of the key set, picked by the caller of the model (rev)
MapOrder(m, rev) ==
    LET n == Cardinality(DOMAIN m)
        s == CHOOSE q \in [1..n -> DOMAIN m] : \A i, j \in 1..n : q[i] = q[j] => i = j
    IN  [j \in 1..n |-> IF rev THEN s[n + 1 - j] ELSE s[j]]

\* a name resolution that takes the tag "-" for a name
WireNameNoSentinel(field, tagKey) ==
    IF ~field.exported THEN [skip |-> TRUE, name |-> <<>>]
    ELSE IF field.tag[tagKey] # <<>>
         THEN [skip |-> FALSE, name |-> SplitFirst(field.tag[tagKey])]
         ELSE [skip |-> FALSE, name |-> field.name]

\* a name resolution that takes the whole tag, options included, for the name
WireNameWholeTag(field, tagKey) ==
    IF ~field.exported \/ field.tag[tagKey] = <<"-">> THEN [skip |-> TRUE, name |-> <<>>]
    ELSE IF field.tag[tagKey] # <<>>
         THEN [skip |-> FALSE, name |-> field.tag[tagKey]]
         ELSE [skip |-> FALSE, name |-> field.name]

\* the wire name of a struct field under a tag key: "skip" for an
\* unexported field or the tag "-", else the tag's first comma-delimited
\* segment, else the declared name
WireName(field, tagKey) ==
    IF ~field.exported \/ field.tag[tagKey] = <<"-">> THEN [skip |-> TRUE, name |-> <<>>]
    ELSE IF field.tag[tagKey] # <<>>
         THEN [skip |-> FALSE, name |-> SplitFirst(field.tag[tagKey])]
         ELSE [skip |-> FALSE, name |-> field.name]

\* escapeString of both packages
escapeString(s) ==
    LET s1 == ReplaceAll(s, "\\", <<"\\", "\\">>)
        s2 == ReplaceAll(s1, "\"", <<"\\", "\"">>)
        s3 == ReplaceAll(s2, "\n", <<"\\", "n">>)
        s4 == ReplaceAll(s3, "\r", <<"\\", "r">>)
    IN  ReplaceAll(s4, "\t", <<"\\", "t">>)

Quote(s) == <<"\"">> \o s \o <<"\"">>
NullText == <<"n", "u", "l", "l">>
Bytes(b) == [err |-> "nil", bytes |-> b]
Failed(e) == [err |-> e, bytes |-> <<>>]

(***************************************************************************)
(* json: Marshal.  A result is [err, bytes] with err "nil", "error" (an    *)
(* error value is returned) or "panic" (the call ends in a runtime panic). *)
(***************************************************************************)
RECURSIVE JmarshalValue(_, _, _)
RECURSIVE JmarshalElems(_, _, _, _, _)
RECURSIVE JmarshalPairs(_, _, _, _, _)
RECURSIVE JmarshalStruct(_, _, _, _, _)

\* elements i.. of a slice or array, appended to acc
JmarshalElems(t, v, rev, i, acc) ==
    IF i > Len(v.elems) THEN Bytes(<<"[">> \o Join(acc, <<",">>) \o <<"]">>)
    ELSE LET element == JmarshalValue(t.elem, v.elems[i], rev)
         IN  IF element.err # "nil" THEN Failed(element.err)
             ELSE JmarshalElems(t, v, rev, i + 1, Append(acc, element.bytes))

\* v.IsNil() panics on an array
JmarshalArray(t, v, rev) ==
    IF v.kind = "array" THEN Failed("panic")
    ELSE IF v.nil THEN Bytes(NullText)
    ELSE JmarshalElems(t, v, rev, 1, <<>>)

JmarshalPairs(t, v, rev, i, acc) ==
    LET keys == MapOrder(v.m, rev)
    IN  IF i > Len(keys) THEN Bytes(<<"{">> \o Join(acc, <<",">>) \o <<"}">>)
        ELSE LET keyBytes   == JmarshalValue(TString, VStr(keys[i]), rev)
                 valueBytes == JmarshalValue(t.elem, v.m[keys[i]], rev)
             IN  IF valueBytes.err # "nil" THEN Failed(valueBytes.err)
                 ELSE JmarshalPairs(t, v, rev, i + 1,
                          Append(acc, keyBytes.bytes \o <<":">> \o valueBytes.bytes))

JmarshalMap(t, v, rev) ==
    IF v.nil THEN Bytes(NullText) ELSE JmarshalPairs(t, v, rev, 1, <<>>)

\* marshalStruct, with its loop from field i on
JmarshalStruct(t, v, rev, i, acc) ==
    IF i > Len(t.fields) THEN Bytes(<<"{">> \o Join(acc, <<",">>) \o <<"}">>)
    ELSE LET wn == WireName(t.fields[i], "json")
         IN  IF wn.skip THEN JmarshalStruct(t, v, rev, i + 1, acc)
             ELSE LET valueBytes == JmarshalValue(t.fields[i].type, v.fs[i], rev)
                  IN  IF valueBytes.err # "nil" THEN Failed(valueBytes.err)
                      ELSE JmarshalStruct(t, v, rev, i + 1,
                               Append(acc, Quote(wn.name) \o <<":">> \o valueBytes.bytes))

JmarshalValue(t, v, rev) ==
    CASE v.kind = "string" -> Bytes(Quote(escapeString(v.s)))
      [] v.kind = "int" -> Bytes(FormatInt(v.i))
      [] v.kind = "uint" -> Bytes(FormatUint(v.i))
      [] v.kind = "float" -> Bytes(FormatFloat(v.f))
      [] v.kind = "bool" -> Bytes(FormatBool(v.b))
      [] v.kind \in {"slice", "array"} -> JmarshalArray(t, v, rev)
      [] v.kind = "map" -> JmarshalMap(t, v, rev)
      [] v.kind = "struct" -> JmarshalStruct(t, v, rev, 1, <<>>)
      [] v.kind \in {"ptr", "interface"} ->
            IF v.nil THEN Bytes(NullText)
            ELSE JmarshalValue(IF v.kind = "ptr" THEN t.elem ELSE v.type, v.elem, rev)
      [] v.kind = "invalid" -> Bytes(NullText)
      [] OTHER -> Failed("error")

\* JSONSerializer.Marshal: nv is [type, val]
JMarshal(nv, rev) == JmarshalValue(nv.type, nv.val, rev)

(***************************************************************************)
(* Parsed values: what the parsers build (string, int64, float64, bool,    *)
(* nil, []interface{}, map[string]interface{}, time.Time).                 *)
(***************************************************************************)
PStr(s) == [k |-> "str", s |-> s]
PInt(i) == [k |-> "int", i |-> i]
PFlt(f) == [k |-> "flt", f |-> f]
PBool(b) == [k |-> "bool", b |-> b]
PNull == [k |-> "null"]
PArr(a) == [k |-> "arr", a |-> a]
PObj(o) == [k |-> "obj", o |-> o]
PTime(s) == [k |-> "time", s |-> s]

\* obj[key] = value on a Go map
MapPut(o, key, value) ==
    [x \in (DOMAIN o) \cup {key} |-> IF x = key THEN value ELSE o[x]]

Tok(typ, value) == [typ |-> typ, value |-> value]
tokenEOF == Tok("EOF", <<>>)

\* l.input[pos:pos+len(word)] == word, guarded as the lexers guard it
HasKeyword(input, pos, word) ==
    /\ pos + Len(word) - 1 < Len(input)
    /\ SubSeq(input, pos + 1, pos + Len(word)) = word

(***************************************************************************)
(* json: lexer.  A lexer call returns [token, pos], pos the cursor after   *)
(* the call.                                                               *)
(***************************************************************************)
RECURSIVE JskipWhitespace(_, _)
JskipWhitespace(input, pos) ==
    IF pos < Len(input) /\ IsSpace(input[pos + 1])
    THEN JskipWhitespace(input, pos + 1)
    ELSE pos

RECURSIVE JreadString(_, _, _)

JreadStringLenient(input, start, pos) ==
    IF pos < Len(input)
    THEN IF input[pos + 1] = "\"" /\ input[pos] # "\\"
         THEN [token |-> Tok("String", SubSeq(input, start + 2, pos)), pos |-> pos + 1]
         ELSE JreadString(input, start, pos + 1)
    ELSE [token |-> Tok("String", SubSeq(input, start + 2, pos)), pos |-> pos]

JreadStringNoEscape(input, start, pos) ==
    IF pos < Len(input)
    THEN IF input[pos + 1] = "\""
         THEN [token |-> Tok("String", SubSeq(input, start + 2, pos)), pos |-> pos + 1]
         ELSE JreadString(input, start, pos + 1)
    ELSE [token |-> tokenEOF, pos |-> pos]

\* readString, with its loop from cursor pos on; start is the opening quote
JreadString(input, start, pos) ==
    IF pos < Len(input)
    THEN IF input[pos + 1] = "\"" /\ input[pos] # "\\"
         THEN [token |-> Tok("String", SubSeq(input, start + 2, pos)), pos |-> pos + 1]
         ELSE JreadString(input, start, pos + 1)
    ELSE [token |-> tokenEOF, pos |-> pos]

\* readNumber, with its loop from cursor pos on; start is the first byte
RECURSIVE JreadNumber(_, _, _)
JreadNumber(input, start, pos) ==
    IF pos < Len(input)
       /\ (IsDigit(input[pos + 1]) \/ input[pos + 1] \in {".", "-", "e", "E", "+"})
    THEN JreadNumber(input, start, pos + 1)
    ELSE [token |-> Tok("Number", SubSeq(input, start + 1, pos)), pos |-> pos]

Jnext(input, pos0) ==
    The({
        LET one(typ) == [token |-> Tok(typ, <<input[pos + 1]>>), pos |-> pos + 1]
            word(typ, w) == [token |-> Tok(typ, w), pos |-> pos + Len(w)]
        IN
        IF pos >= Len(input) THEN [token |-> tokenEOF, pos |-> pos]
        ELSE CASE input[pos + 1] = "{" -> one("LeftBrace")
               [] input[pos + 1] = "}" -> one("RightBrace")
               [] input[pos + 1] = "[" -> one("LeftBracket")
               [] input[pos + 1] = "]" -> one("RightBracket")
               [] input[pos + 1] = "," -> one("Comma")
               [] input[pos + 1] = ":" -> one("Colon")
               [] input[pos + 1] = "\"" -> JreadString(input, pos, pos + 1)
               [] input[pos + 1] = "t" /\ HasKeyword(input, pos, <<"t", "r", "u", "e">>) ->
                     word("True", <<"t", "r", "u", "e">>)
               [] input[pos + 1] = "f" /\ HasKeyword(input, pos, <<"f", "a", "l", "s", "e">>) ->
                     word("False", <<"f", "a", "l", "s", "e">>)
               [] input[pos + 1] = "n" /\ HasKeyword(input, pos, <<"n", "u", "l", "l">>) ->
                     word("Null", <<"n", "u", "l", "l">>)
               [] OTHER ->
                     IF input[pos + 1] = "-" \/ IsDigit(input[pos + 1])
                     THEN JreadNumber(input, pos, pos)
                     ELSE [token |-> tokenEOF, pos |-> pos] :
        pos \in {JskipWhitespace(input, pos0)}})

(***************************************************************************)
(* json: parser.  The parser state p is [pos, token]: the lexer's cursor   *)
(* and the current token.  A parse returns [ok, val, p].                   *)
(***************************************************************************)
JnewParser(input) == Jnext(input, 0)

\* parser.next
JpNext(input, p) == Jnext(input, p.pos)

ParseOK(val, p) == [ok |-> TRUE, val |-> val, p |-> p]
ParseErr(p) == [ok |-> FALSE, val |-> PNull, p |-> p]

\* the tokenNumber case of parseValue, on the token's text
NumberValue(val) ==
    IF Contains(val, ".")
    THEN The({[ok |-> r.ok, val |-> PFlt(r.f)] : r \in {ParseFloat(val)}})
    ELSE The({[ok |-> r.ok, val |-> PInt(r.i)] : r \in {ParseInt(val)}})

RECURSIVE JparseValue(_, _)
RECURSIVE JparseMembers(_, _, _)
RECURSIVE JparseElements(_, _, _)

\* the for loop of parseObject
JparseMembers(input, p, obj) ==
    IF p.token.typ # "String" THEN ParseErr(p)
    ELSE The({
        IF p1.token.typ # "Colon" THEN ParseErr(p1)
        ELSE The({
            IF ~r.ok THEN ParseErr(r.p)
            ELSE IF r.p.token.typ = "RightBrace"
                 THEN ParseOK(PObj(MapPut(obj, p.token.value, r.val)), JpNext(input, r.p))
            ELSE IF r.p.token.typ # "Comma" THEN ParseErr(r.p)
            ELSE JparseMembers(input, JpNext(input, r.p), MapPut(obj, p.token.value, r.val)) :
            r \in {JparseValue(input, JpNext(input, p1))}}) :
        p1 \in {JpNext(input, p)}})

JparseObject(input, p) ==
    The({IF p1.token.typ = "RightBrace" THEN ParseOK(PObj(<<>>), JpNext(input, p1))
         ELSE JparseMembers(input, p1, <<>>) :
         p1 \in {JpNext(input, p)}})

\* the for loop of parseArray
JparseElements(input, p, arr) ==
    The({IF ~r.ok THEN ParseErr(r.p)
         ELSE IF r.p.token.typ = "RightBracket"
              THEN ParseOK(PArr(Append(arr, r.val)), JpNext(input, r.p))
         ELSE IF r.p.token.typ # "Comma" THEN ParseErr(r.p)
         ELSE JparseElements(input, JpNext(input, r.p), Append(arr, r.val)) :
         r \in {JparseValue(input, p)}})

JparseArray(input, p) ==
    The({IF p1.token.typ = "RightBracket" THEN ParseOK(PArr(<<>>), JpNext(input, p1))
         ELSE JparseElements(input, p1, <<>>) :
         p1 \in {JpNext(input, p)}})

JparseValue(input, p) ==
    CASE p.token.typ = "String" -> ParseOK(PStr(p.token.value), JpNext(input, p))
      [] p.token.typ = "Number" ->
            The({IF n.ok THEN ParseOK(n.val, JpNext(input, p))
                 ELSE ParseErr(JpNext(input, p)) :
                 n \in {NumberValue(p.token.value)}})
      [] p.token.typ = "True" -> ParseOK(PBool(TRUE), JpNext(input, p))
      [] p.token.typ = "False" -> ParseOK(PBool(FALSE), JpNext(input, p))
      [] p.token.typ = "Null" -> ParseOK(PNull, JpNext(input, p))
      [] p.token.typ = "LeftBrace" -> JparseObject(input, p)
      [] p.token.typ = "LeftBracket" -> JparseArray(input, p)
      [] OTHER -> ParseErr(p)

(***************************************************************************)
(* setValue of both packages (the two differ in the tag key only).         *)
(* A result is [err, val]: err is "nil", "error" or "panic", val is the    *)
(* destination after the call, which on "error" keeps whatever was written *)
(* before the failure.  nd carries the choices the code leaves open:       *)
(* nd.rev, the order of a range over a map, and nd.conv, what uint64(f)    *)
(* yields for a negative f (implementation-dependent in Go: the int64      *)
(* conversion reinterpreted, "wrap", or 0, "saturate").                    *)
(***************************************************************************)
Set(val) == [err |-> "nil", val |-> val]
Fail(val) == [err |-> "error", val |-> val]

\* a decode that leaves the target as it was
KeepTarget(t, rv) == Set(rv)

\* rv.Set(reflect.Zero(rv.Type())); return nil
SetZero(t, rv) == Set(Zero(t))

\* uint64(f) for a float64 f
FloatToUint(f, conv) ==
    IF f.neg /\ conv = "saturate" THEN VUint(0) ELSE VUint(TruncFloat(f))

\* reflect.ValueOf(value) for a parsed value, as [type, val]
RECURSIVE ValueOf(_)
ValueOf(value) ==
    CASE value.k = "str" -> [type |-> TString, val |-> VStr(value.s)]
      [] value.k = "int" -> [type |-> TInt, val |-> VInt(value.i)]
      [] value.k = "flt" -> [type |-> TFloat, val |-> VFloat(value.f)]
      [] value.k = "bool" -> [type |-> TBool, val |-> VBool(value.b)]
      [] value.k = "arr" ->
            [type |-> TSlice(TInterface),
             val  |-> VSlice([j \in 1..Len(value.a) |->
                         IF value.a[j].k = "null" THEN VNilIface
                         ELSE VIface(ValueOf(value.a[j]).type, ValueOf(value.a[j]).val)])]
      [] value.k = "obj" ->
            [type |-> TMap(TInterface),
             val  |-> VMap([key \in DOMAIN value.o |->
                         IF value.o[key].k = "null" THEN VNilIface
                         ELSE VIface(ValueOf(value.o[key]).type, ValueOf(value.o[key]).val)])]
      [] OTHER -> [type |-> TStruct(<<>>), val |-> [kind |-> "time", s |-> value.s]]

RECURSIVE setValue(_, _, _, _, _)
RECURSIVE setElems(_, _, _, _, _, _)
RECURSIVE setPairs(_, _, _, _, _, _, _)
RECURSIVE setFields(_, _, _, _, _, _)

\* a slice decode that leaves a nil slice for an empty array
setElemsNilIfEmpty(tagKey, t, rv, arr, nd, i) ==
    IF Len(arr) = 0 THEN Set(VNilSlice)
    ELSE IF i > Len(arr) THEN Set(rv)
    ELSE LET r   == setValue(tagKey, t.elem, rv.elems[i], arr[i], nd)
             rv1 == [rv EXCEPT !.elems[i] = r.val]
         IN  IF r.err # "nil" THEN [err |-> r.err, val |-> rv1]
             ELSE setElems(tagKey, t, rv1, arr, nd, i + 1)

\* for i, v := range arr, from index i on; rv is the slice made so far
setElems(tagKey, t, rv, arr, nd, i) ==
    IF i > Len(arr) THEN Set(rv)
    ELSE LET r   == setValue(tagKey, t.elem, rv.elems[i], arr[i], nd)
             rv1 == [rv EXCEPT !.elems[i] = r.val]
         IN  IF r.err # "nil" THEN [err |-> r.err, val |-> rv1]
             ELSE setElems(tagKey, t, rv1, arr, nd, i + 1)

\* for k, v := range obj, over the keys in the order keys, from index i on
setPairs(tagKey, t, rv, obj, keys, nd, i) ==
    IF i > Len(keys) THEN Set(rv)
    ELSE LET r == setValue(tagKey, t.elem, Zero(t.elem), obj[keys[i]], nd)
         IN  IF r.err # "nil" THEN [err |-> r.err, val |-> rv]
             ELSE setPairs(tagKey, t, [rv EXCEPT !.m = MapPut(rv.m, keys[i], r.val)],
                           obj, keys, nd, i + 1)

\* a struct decode that clears the fields the source has no member for
setFieldsClearing(tagKey, t, rv, obj, nd, i) ==
    IF i > Len(t.fields) THEN Set(rv)
    ELSE LET wn == WireName(t.fields[i], tagKey)
         IN  IF wn.skip THEN setFields(tagKey, t, rv, obj, nd, i + 1)
             ELSE IF wn.name \notin DOMAIN obj
             THEN setFields(tagKey, t, [rv EXCEPT !.fs[i] = Zero(t.fields[i].type)],
                            obj, nd, i + 1)
             ELSE LET r   == setValue(tagKey, t.fields[i].type, rv.fs[i], obj[wn.name], nd)
                      rv1 == [rv EXCEPT !.fs[i] = r.val]
                  IN  IF r.err # "nil" THEN [err |-> r.err, val |-> rv1]
                      ELSE setFields(tagKey, t, rv1, obj, nd, i + 1)

setFieldsContinuing(tagKey, t, rv, obj, nd, i) ==
    IF i > Len(t.fields) THEN Set(rv)
    ELSE LET wn == WireName(t.fields[i], tagKey)
         IN  IF wn.skip \/ wn.name \notin DOMAIN obj
             THEN setFields(tagKey, t, rv, obj, nd, i + 1)
             ELSE LET r    == setValue(tagKey, t.fields[i].type, rv.fs[i], obj[wn.name], nd)
                      rest == setFields(tagKey, t, [rv EXCEPT !.fs[i] = r.val], obj, nd, i + 1)
                  IN  IF r.err # "nil" THEN [err |-> r.err, val |-> rest.val]
                      ELSE rest

\* for i := 0; i < rv.NumField(); i++, from field i on
setFields(tagKey, t, rv, obj, nd, i) ==
    IF i > Len(t.fields) THEN Set(rv)
    ELSE LET wn == WireName(t.fields[i], tagKey)
         IN  IF wn.skip \/ wn.name \notin DOMAIN obj
             THEN setFields(tagKey, t, rv, obj, nd, i + 1)
             ELSE LET r   == setValue(tagKey, t.fields[i].type, rv.fs[i], obj[wn.name], nd)
                      rv1 == [rv EXCEPT !.fs[i] = r.val]
                  IN  IF r.err # "nil" THEN [err |-> r.err, val |-> rv1]
                      ELSE setFields(tagKey, t, rv1, obj, nd, i + 1)

setValue(tagKey, t, rv, value, nd) ==
    CASE t.kind = "string" ->
            IF value.k = "str" THEN Set(VStr(value.s)) ELSE Fail(rv)
      [] t.kind = "int" ->
            IF value.k = "flt" THEN Set(VInt(TruncFloat(value.f)))
            ELSE IF value.k = "int" THEN Set(VInt(value.i))
            ELSE Fail(rv)
      [] t.kind = "uint" ->
            IF value.k = "flt" THEN Set(FloatToUint(value.f, nd.conv))
            ELSE IF value.k = "int" THEN Set(VUint(value.i))
            ELSE Fail(rv)
      [] t.kind = "float" ->
            IF value.k = "flt" THEN Set(VFloat(value.f)) ELSE Fail(rv)
      [] t.kind = "bool" ->
            IF value.k = "bool" THEN Set(VBool(value.b)) ELSE Fail(rv)
      [] t.kind = "slice" ->
            IF value.k = "null" THEN SetZero(t, rv)
            ELSE IF value.k # "arr" THEN Fail(rv)
            ELSE setElems(tagKey, t, VSlice([j \in 1..Len(value.a) |-> Zero(t.elem)]),
                          value.a, nd, 1)
      [] t.kind = "map" ->
            IF value.k = "null" THEN SetZero(t, rv)
            ELSE IF value.k # "obj" THEN Fail(rv)
            ELSE setPairs(tagKey, t, VMap(<<>>), value.o, MapOrder(value.o, nd.rev), nd, 1)
      [] t.kind = "struct" ->
            IF value.k = "null" THEN SetZero(t, rv)
            ELSE IF value.k # "obj" THEN Fail(rv)
            ELSE setFields(tagKey, t, rv, value.o, nd, 1)
      [] t.kind = "ptr" ->
            IF value.k = "null" THEN SetZero(t, rv)
            ELSE LET r == setValue(tagKey, t.elem,
                                   IF rv.nil THEN Zero(t.elem) ELSE rv.elem, value, nd)
                 IN  [err |-> r.err, val |-> VPtr(r.val)]
      [] t.kind = "interface" ->
            IF value.k = "null" THEN SetZero(t, rv)
            ELSE Set(VIface(ValueOf(value).type, ValueOf(value).val))
      [] OTHER -> Fail(rv)

(***************************************************************************)
(* The argument v of Unmarshal is [mode, type, val]: mode "ptr" for a      *)
(* pointer to storage of the given type holding val, "nilptr" for a nil    *)
(* pointer of a pointer type, "value" for anything that is not a pointer.  *)
(* Unmarshal returns [err, val, stage]: val is the storage after the call, *)
(* stage tells how far the call got ("parse", "usage", "set").             *)
(***************************************************************************)
Done(err, val, at) == [err |-> err, val |-> val, stage |-> at]

\* the part of Unmarshal after the parse, the same in both packages
SetInto(tagKey, v, value, nd) ==
    IF v.mode = "value" THEN Done("error", v.val, "usage")
    ELSE IF v.mode = "nilptr" THEN Done("error", v.val, "set")
    ELSE The({Done(r.err, r.val, "set") : r \in {setValue(tagKey, v.type, v.val, value, nd)}})

JUnmarshalClearing(input, v, nd) ==
    The({IF ~r.ok THEN Done("error", Zero(v.type), "parse")
         ELSE SetInto("json", v, r.val, nd) :
         r \in {JparseValue(input, JnewParser(input))}})

\* JSONSerializer.Unmarshal
JUnmarshal(input, v, nd) ==
    The({IF ~r.ok THEN Done("error", v.val, "parse")
         ELSE SetInto("json", v, r.val, nd) :
         r \in {JparseValue(input, JnewParser(input))}})

(***************************************************************************)
(* toml: lexer.  The fields line and col of the lexer are written but      *)
(* never read, and are left out.                                           *)
(***************************************************************************)
\* skipWhitespace: a newline updates line and col and is then stepped over
\* like any other space
RECURSIVE TskipWhitespace(_, _)
TskipWhitespace(input, pos) ==
    IF pos < Len(input) /\ (input[pos + 1] = "\n" \/ IsSpace(input[pos + 1]))
    THEN TskipWhitespace(input, pos + 1)
    ELSE pos

\* readString, with its loop from cursor pos on; start is the opening quote
RECURSIVE TreadString(_, _, _)
TreadString(input, start, pos) ==
    IF pos < Len(input)
    THEN IF input[pos + 1] = "\"" /\ input[pos] # "\\"
         THEN [token |-> Tok("String", SubSeq(input, start + 2, pos)), pos |-> pos + 1]
         ELSE TreadString(input, start, pos + 1)
    ELSE [token |-> tokenEOF, pos |-> pos]

\* readNumberOrDate, with its loop from cursor pos on; isDate is the flag
\* so far
RECURSIVE TreadNumberOrDate(_, _, _, _)
TreadNumberOrDate(input, start, pos, isDate) ==
    IF pos < Len(input) /\ input[pos + 1] \in {"T", "Z", "-", ":"}
    THEN TreadNumberOrDate(input, start, pos + 1, TRUE)
    ELSE IF pos < Len(input)
            /\ (IsDigit(input[pos + 1]) \/ input[pos + 1] \in {".", "+", "e", "E"})
    THEN TreadNumberOrDate(input, start, pos + 1, isDate)
    ELSE [token |-> Tok(IF isDate THEN "Date" ELSE "Number", SubSeq(input, start + 1, pos)),
          pos   |-> pos]

Tnext(input, pos0) ==
    The({
        LET one(typ) == [token |-> Tok(typ, <<input[pos + 1]>>), pos |-> pos + 1]
            word(typ, w) == [token |-> Tok(typ, w), pos |-> pos + Len(w)]
        IN
        IF pos >= Len(input) THEN [token |-> tokenEOF, pos |-> pos]
        ELSE CASE input[pos + 1] = "[" -> one("LeftBracket")
               [] input[pos + 1] = "]" -> one("RightBracket")
               [] input[pos + 1] = "." -> one("Dot")
               [] input[pos + 1] = "=" -> one("Equals")
               [] input[pos + 1] = "," -> one("Comma")
               [] input[pos + 1] = "\n" -> one("Newline")
               [] input[pos + 1] = "\"" -> TreadString(input, pos, pos + 1)
               [] input[pos + 1] = "t" /\ HasKeyword(input, pos, <<"t", "r", "u", "e">>) ->
                     word("True", <<"t", "r", "u", "e">>)
               [] input[pos + 1] = "f" /\ HasKeyword(input, pos, <<"f", "a", "l", "s", "e">>) ->
                     word("False", <<"f", "a", "l", "s", "e">>)
               [] OTHER ->
                     IF input[pos + 1] = "-" \/ IsDigit(input[pos + 1])
                     THEN TreadNumberOrDate(input, pos, pos, FALSE)
                     ELSE [token |-> tokenEOF, pos |-> pos] :
        pos \in {TskipWhitespace(input, pos0)}})

(***************************************************************************)
(* toml: parser                                                            *)
(***************************************************************************)
TnewParser(input) == Tnext(input, 0)

TpNext(input, p) == Tnext(input, p.pos)

\* time.Parse(time.RFC3339, val): the layout 2006-01-02T15:04:05 followed
\* by Z or a numeric offset; no text shorter than the layout parses
RFC3339MinLen == 20

TimeParse(val) ==
    /\ Len(val) >= RFC3339MinLen
    /\ \A j \in {1, 2, 3, 4, 6, 7, 9, 10, 12, 13, 15, 16, 18, 19} : IsDigit(val[j])
    /\ val[5] = "-" /\ val[8] = "-" /\ val[11] = "T" /\ val[14] = ":" /\ val[17] = ":"
    /\ \/ Len(val) = 20 /\ val[20] = "Z"
       \/ /\ Len(val) = 25 /\ val[20] \in {"+", "-"} /\ val[23] = ":"
          /\ \A j \in {21, 22, 24, 25} : IsDigit(val[j])

RECURSIVE TparseValue(_, _)
RECURSIVE TparseElements(_, _, _)

TparseElements(input, p, arr) ==
    The({IF ~r.ok THEN ParseErr(r.p)
         ELSE IF r.p.token.typ = "RightBracket"
              THEN ParseOK(PArr(Append(arr, r.val)), TpNext(input, r.p))
         ELSE IF r.p.token.typ # "Comma" THEN ParseErr(r.p)
         ELSE TparseElements(input, TpNext(input, r.p), Append(arr, r.val)) :
         r \in {TparseValue(input, p)}})

TparseArray(input, p) ==
    The({IF p1.token.typ = "RightBracket" THEN ParseOK(PArr(<<>>), TpNext(input, p1))
         ELSE TparseElements(input, p1, <<>>) :
         p1 \in {TpNext(input, p)}})

TparseValue(input, p) ==
    CASE p.token.typ = "String" -> ParseOK(PStr(p.token.value), TpNext(input, p))
      [] p.token.typ = "Number" ->
            The({IF n.ok THEN ParseOK(n.val, TpNext(input, p))
                 ELSE ParseErr(TpNext(input, p)) :
                 n \in {NumberValue(p.token.value)}})
      [] p.token.typ = "Date" ->
            IF TimeParse(p.token.value)
            THEN ParseOK(PTime(p.token.value), TpNext(input, p))
            ELSE ParseErr(TpNext(input, p))
      [] p.token.typ = "True" -> ParseOK(PBool(TRUE), TpNext(input, p))
      [] p.token.typ = "False" -> ParseOK(PBool(FALSE), TpNext(input, p))
      [] p.token.typ = "LeftBracket" -> TparseArray(input, p)
      [] OTHER -> ParseErr(p)

\* parseTablePath, with its loop from the current token on; path is the
\* path so far.  Returns [path, p].
RECURSIVE TparseTablePath(_, _, _)
TparseTablePath(input, p, path) ==
    IF p.token.typ # "String" THEN [path |-> path, p |-> p]
    ELSE The({IF p1.token.typ # "Dot"
              THEN [path |-> Append(path, p.token.value), p |-> p1]
              ELSE TparseTablePath(input, TpNext(input, p1), Append(path, p.token.value)) :
              p1 \in {TpNext(input, p)}})

\* the table reached from table by the keys of path (all of them tables)
RECURSIVE TableAt(_, _)
TableAt(table, path) ==
    IF path = <<>> THEN table ELSE TableAt(table.o[Head(path)], Tail(path))

\* table with the table at path replaced by sub
RECURSIVE WithTableAt(_, _, _)
WithTableAt(table, path, sub) ==
    IF path = <<>> THEN sub
    ELSE PObj(MapPut(table.o, Head(path), WithTableAt(table.o[Head(path)], Tail(path), sub)))

\* "Navigate to the correct nested map": the loop over path[:len(path)-1],
\* from segment i on, and the assertion on the last segment after it.
\* Returns [err, table, current]: the root as the loop left it and the path
\* of the new current table.
RECURSIVE Navigate(_, _, _)
Navigate(table, path, i) ==
    LET walked  == SubSeq(path, 1, i - 1)
        current == TableAt(table, walked)
        key     == path[i]
    IN  IF i = Len(path)
        THEN IF key \in DOMAIN current.o /\ current.o[key].k = "obj"
             THEN [err |-> "nil", table |-> table, current |-> path]
             ELSE [err |-> "panic", table |-> table, current |-> walked]
        ELSE LET made == IF key \in DOMAIN current.o THEN table
                         ELSE WithTableAt(table, walked, PObj(MapPut(current.o, key, PObj(<<>>))))
             IN  IF TableAt(made, walked).o[key].k = "obj"
                 THEN Navigate(made, path, i + 1)
                 ELSE [err |-> "error", table |-> made, current |-> walked]

\* the for loop of parseTable: table is the root, current the path of the
\* current table.  Returns [err, val, p].
RECURSIVE TparseStatements(_, _, _, _)
TparseStatements(input, p, table, current) ==
    CASE p.token.typ = "EOF" -> [err |-> "nil", val |-> table, p |-> p]
      [] p.token.typ = "LeftBracket" ->
            The({
                IF tp.p.token.typ # "RightBracket"
                THEN [err |-> "error", val |-> table, p |-> tp.p]
                ELSE The({
                    IF tp.path = <<>> THEN [err |-> "panic", val |-> table, p |-> p2]
                    ELSE The({
                        IF nav.err # "nil" THEN [err |-> nav.err, val |-> nav.table, p |-> p2]
                        ELSE TparseStatements(input, p2, nav.table, nav.current) :
                        nav \in {Navigate(table, tp.path, 1)}}) :
                    p2 \in {TpNext(input, tp.p)}}) :
                tp \in {TparseTablePath(input, TpNext(input, p), <<>>)}})
      [] p.token.typ = "String" ->
            The({
                IF p1.token.typ # "Equals" THEN [err |-> "error", val |-> table, p |-> p1]
                ELSE The({
                    IF ~r.ok THEN [err |-> "error", val |-> table, p |-> r.p]
                    ELSE The({
                        IF r.p.token.typ \notin {"Newline", "EOF"}
                        THEN [err |-> "error", val |-> t1, p |-> r.p]
                        ELSE TparseStatements(input, TpNext(input, r.p), t1, current) :
                        t1 \in {WithTableAt(table, current,
                                    PObj(MapPut(TableAt(table, current).o, p.token.value, r.val)))}}) :
                    r \in {TparseValue(input, TpNext(input, p1))}}) :
                p1 \in {TpNext(input, p)}})
      [] OTHER -> [err |-> "error", val |-> table, p |-> p]

TparseTable(input, p) == TparseStatements(input, p, PObj(<<>>), <<>>)

\* TOMLSerializer.Unmarshal
TUnmarshal(input, v, nd) ==
    The({IF r.err # "nil" THEN Done(r.err, v.val, "parse")
         ELSE SetInto("toml", v, r.val, nd) :
         r \in {TparseTable(input, TnewParser(input))}})

(***************************************************************************)
(* toml: Marshal.  The native types of the model do not include time.Time, *)
(* so the special case of marshalStruct for it is never taken.             *)
(***************************************************************************)
RECURSIVE TmarshalValue(_, _, _, _)
RECURSIVE TmarshalElems(_, _, _, _, _)
RECURSIVE TmarshalPairs(_, _, _, _, _, _)
RECURSIVE TmarshalStruct(_, _, _, _, _, _)

Dotted(prefix, name) == IF prefix # <<>> THEN prefix \o <<".">> \o name ELSE name

TmarshalElems(t, v, rev, i, acc) ==
    IF i > Len(v.elems) THEN Bytes(<<"[">> \o Join(acc, <<",", " ">>) \o <<"]">>)
    ELSE LET element == TmarshalValue(t.elem, v.elems[i], <<>>, rev)
         IN  IF element.err # "nil" THEN Failed(element.err)
             ELSE TmarshalElems(t, v, rev, i + 1, Append(acc, element.bytes))

\* an array encoder that writes a nil slice as JSON does
TmarshalArrayAsJSON(t, v, rev) ==
    IF v.kind = "array" THEN Failed("panic")
    ELSE IF v.nil THEN Bytes(NullText)
    ELSE TmarshalElems(t, v, rev, 1, <<>>)

\* v.IsNil() panics on an array
TmarshalArray(t, v, rev) ==
    IF v.kind = "array" THEN Failed("panic")
    ELSE IF v.nil THEN Bytes(<<"[", "]">>)
    ELSE TmarshalElems(t, v, rev, 1, <<>>)

TmarshalPairs(t, v, prefix, rev, i, acc) ==
    LET keys == MapOrder(v.m, rev)
    IN  IF i > Len(keys) THEN Bytes(Join(acc, <<"\n">>))
        ELSE LET keyStr     == Dotted(prefix, keys[i])
                 valueBytes == TmarshalValue(t.elem, v.m[keys[i]], keyStr, rev)
             IN  IF valueBytes.err # "nil" THEN Failed(valueBytes.err)
                 ELSE TmarshalPairs(t, v, prefix, rev, i + 1,
                          Append(acc, keyStr \o <<" ", "=", " ">> \o valueBytes.bytes))

TmarshalMap(t, v, prefix, rev) ==
    IF v.nil THEN Bytes(<<"{", "}">>) ELSE TmarshalPairs(t, v, prefix, rev, 1, <<>>)

\* marshalStruct, with its loop from field i on
TmarshalStruct(t, v, prefix, rev, i, acc) ==
    IF i > Len(t.fields) THEN Bytes(Join(acc, <<"\n">>))
    ELSE LET wn == WireName(t.fields[i], "toml")
         IN  IF wn.skip THEN TmarshalStruct(t, v, prefix, rev, i + 1, acc)
             ELSE LET name       == Dotted(prefix, wn.name)
                      valueBytes == TmarshalValue(t.fields[i].type, v.fs[i], name, rev)
                  IN  IF valueBytes.err # "nil" THEN Failed(valueBytes.err)
                      ELSE TmarshalStruct(t, v, prefix, rev, i + 1,
                               Append(acc, name \o <<" ", "=", " ">> \o valueBytes.bytes))

TmarshalValue(t, v, prefix, rev) ==
    CASE v.kind = "string" -> Bytes(Quote(escapeString(v.s)))
      [] v.kind = "int" -> Bytes(FormatInt(v.i))
      [] v.kind = "uint" -> Bytes(FormatUint(v.i))
      [] v.kind = "float" -> Bytes(FormatFloat(v.f))
      [] v.kind = "bool" -> Bytes(FormatBool(v.b))
      [] v.kind \in {"slice", "array"} -> TmarshalArray(t, v, rev)
      [] v.kind = "map" -> TmarshalMap(t, v, prefix, rev)
      [] v.kind = "struct" -> TmarshalStruct(t, v, prefix, rev, 1, <<>>)
      [] v.kind \in {"ptr", "interface"} ->
            IF v.nil THEN Bytes(NullText)
            ELSE TmarshalValue(IF v.kind = "ptr" THEN t.elem ELSE v.type, v.elem, prefix, rev)
      [] v.kind = "invalid" -> Bytes(NullText)
      [] OTHER -> Failed("error")

\* TOMLSerializer.Marshal: nv is [type, val]
TMarshal(nv, rev) == TmarshalValue(nv.type, nv.val, <<>>, rev)

(***************************************************************************)
(* The values, types and documents the calls are made with.                *)
(***************************************************************************)
MaxStrLen == 2
MaxSliceLen == 2
MaxMembers == 2
MaxStmts == 3

SeqsUpTo(S, n) == UNION {[1..h -> S] : h \in 0..n}

Key(c) == <<c>>

\* a record with every supported field kind, tagged for both codecs, after
\* TestStruct of the tests
TInfo == TStruct(<<Field(<<"K">>, Key("k"), Key("k"), TRUE, TString)>>)
TRec ==
    TStruct(<<Field(<<"S">>, Key("s"), Key("s"), TRUE, TString),
              Field(<<"N">>, Key("n"), Key("n"), TRUE, TInt),
              Field(<<"U">>, Key("u"), Key("u"), TRUE, TUint),
              Field(<<"F">>, Key("f"), Key("f"), TRUE, TFloat),
              Field(<<"O">>, Key("o"), Key("o"), TRUE, TBool),
              Field(<<"L">>, Key("l"), Key("l"), TRUE, TSlice(TString)),
              Field(<<"M">>, Key("m"), Key("m"), TRUE, TMap(TInt)),
              Field(<<"I">>, Key("i"), Key("i"), TRUE, TInfo),
              Field(<<"P">>, Key("p"), Key("p"), TRUE, TPtr(TInt))>>)

\* the index of the field of TRec with a wire name
FieldOf(name) == CHOOSE j \in 1..Len(TRec.fields) : TRec.fields[j].tag.json = name

F3 == NormFloat(FALSE, 3, 0)
F37 == NormFloat(FALSE, 37, -1)

\* the values of field j of TRec
FieldVals(j) ==
    CASE j = 1 -> {VStr(q) : q \in SeqsUpTo({"a", "\"", "\\", "\n", "\r", "\t"}, MaxStrLen)}
      [] j = 2 -> {VInt(i) : i \in {-5, 0, 3, 42}}
      [] j = 3 -> {VUint(i) : i \in {0, 3}}
      [] j = 4 -> {VFloat(f) : f \in {NormFloat(FALSE, 0, 0), F3, F37, NormFloat(TRUE, 5, -1),
                                     NormFloat(FALSE, 314, -2)}}
      [] j = 5 -> {VBool(b) : b \in BOOLEAN}
      [] j = 6 -> {VNilSlice}
                    \cup {VSlice(q) : q \in SeqsUpTo({VStr(<<>>), VStr(<<"a">>)}, MaxSliceLen)}
      [] j = 7 -> {VNilMap, VMap(<<>>), VMap([key \in {<<"a">>} |-> VInt(3)]),
                   VMap([key \in {<<"a">>, <<"b">>} |->
                            IF key = <<"a">> THEN VInt(3) ELSE VInt(0)])}
      [] j = 8 -> {VStruct(<<VStr(q)>>) : q \in {<<>>, <<"a">>}}
      [] OTHER -> {VNilPtr, VPtr(VInt(0)), VPtr(VInt(3))}

ZeroRec == Zero(TRec)
PopRec ==
    VStruct(<<VStr(<<"a">>), VInt(3), VUint(3), VFloat(F37), VBool(TRUE),
              VSlice(<<VStr(<<"a">>)>>), VMap([key \in {<<"a">>} |-> VInt(3)]),
              VStruct(<<VStr(<<"a">>)>>), VPtr(VInt(3))>>)

\* the records: each base with one field varied
RecVals ==
    {[base EXCEPT !.fs[j] = x] : <<base, j, x>> \in
        UNION {{<<b0, j0, x0>> : x0 \in FieldVals(j0)} :
               <<b0, j0>> \in {ZeroRec, PopRec} \X (1..Len(TRec.fields))}}

Typed(t, vs) == {[type |-> t, val |-> x] : x \in vs}

\* the values handed to Marshal
SupportedValues ==
    Typed(TRec, RecVals) \cup Typed(TInfo, FieldVals(8))
      \cup Typed(TString, FieldVals(1)) \cup Typed(TInt, FieldVals(2))
      \cup Typed(TUint, FieldVals(3)) \cup Typed(TFloat, FieldVals(4))
      \cup Typed(TBool, FieldVals(5)) \cup Typed(TSlice(TString), FieldVals(6))
      \cup Typed(TMap(TInt), FieldVals(7)) \cup Typed(TPtr(TInt), FieldVals(9))
      \cup Typed(TPtr(TRec), {VNilPtr, VPtr(PopRec)})

OtherValues ==
    {[type |-> TArray(2, TInt), val |-> VArray(<<VInt(0), VInt(3)>>)],
     [type |-> TFunc, val |-> VFunc],
     [type |-> TInterface, val |-> VInvalid],
     [type |-> TSlice(TFunc), val |-> VSlice(<<VFunc>>)],
     [type |-> TSlice(TInterface), val |-> VSlice(<<VNilIface, VIface(TInt, VInt(3))>>)]}

\* a record with a field excluded by its tag, a tag with an option, an
\* untagged field and an unexported one, and a record that nests it
TTagged ==
    TStruct(<<Field(<<"X">>, <<"-">>, <<"-">>, TRUE, TString),
              Field(<<"Y">>, <<"y", ",", "o", "m", "i", "t", "e", "m", "p", "t", "y">>,
                    <<"y", ",", "o", "m", "i", "t", "e", "m", "p", "t", "y">>, TRUE, TInt),
              Field(<<"Z">>, <<>>, <<>>, TRUE, TBool),
              Field(<<"w">>, <<"w">>, <<"w">>, FALSE, TString)>>)
TOuter == TStruct(<<Field(<<"I", "n">>, <<"i", "n">>, <<"i", "n">>, TRUE, TTagged)>>)

TaggedRec(z) == VStruct(<<VStr(<<"q">>), VInt(3), VBool(z), VStr(<<"r">>)>>)

NativeValues ==
    SupportedValues \cup OtherValues
      \cup Typed(TTagged, {TaggedRec(TRUE)}) \cup Typed(TOuter, {VStruct(<<TaggedRec(TRUE)>>)})

\* the open choices of one call
Choices == [rev : BOOLEAN, conv : {"wrap", "saturate"}]

(***************************************************************************)
(* Documents.  A document is [form, stmts, text]: the statements it was    *)
(* written from and its bytes.  A key/value statement is                   *)
(* [kind |-> "kv", key, text, val] with val the Value its literal text     *)
(* denotes; a table header is [kind |-> "hdr", path].                      *)
(***************************************************************************)
Lit(text, val) == [text |-> text, val |-> val]
KV(key, lit) == [kind |-> "kv", key |-> key, text |-> lit.text, val |-> lit.val]
Hdr(path) == [kind |-> "hdr", path |-> path]

\* the literals the documents are written with
Lits ==
    [one      |-> Lit(<<"1">>, PInt(1)),
     three    |-> Lit(<<"3">>, PInt(3)),
     neg5     |-> Lit(<<"-", "5">>, PInt(-5)),
     f37      |-> Lit(<<"3", ".", "7">>, PFlt(F37)),
     f30      |-> Lit(<<"3", ".", "0">>, PFlt(F3)),
     e5       |-> Lit(<<"1", "e", "5">>, PFlt(NormFloat(FALSE, 1, 5))),
     a        |-> Lit(<<"\"", "a", "\"">>, PStr(<<"a">>)),
     true     |-> Lit(<<"t", "r", "u", "e">>, PBool(TRUE)),
     null     |-> Lit(<<"n", "u", "l", "l">>, PNull),
     emptyArr |-> Lit(<<"[", "]">>, PArr(<<>>)),
     arrA     |-> Lit(<<"[", "\"", "a", "\"", "]">>, PArr(<<PStr(<<"a">>)>>)),
     emptyObj |-> Lit(<<"{", "}">>, PObj(<<>>)),
     objK     |-> Lit(<<"{", "\"", "k", "\"", ":", "\"", "a", "\"", "}">>,
                      PObj([key \in {<<"k">>} |-> PStr(<<"a">>)])),
     objA     |-> Lit(<<"{", "\"", "a", "\"", ":", "3", "}">>,
                      PObj([key \in {<<"a">>} |-> PInt(3)]))]

JLits == {Lits[x] : x \in DOMAIN Lits}

JRender(stmts) ==
    <<"{">> \o Join([j \in 1..Len(stmts) |-> Quote(stmts[j].key) \o <<":">> \o stmts[j].text],
                    <<",">>) \o <<"}">>

\* objects of one member, any key with any literal, of several members
\* over fewer keys and literals, and of a null member beside another one
JDocs ==
    {[form |-> "json", stmts |-> q, text |-> JRender(q)] :
        q \in [1..1 -> {KV(Key(c), lit) :
                           <<c, lit>> \in {"s", "n", "u", "f", "o", "l", "m", "i", "p", "z"}
                                             \X JLits}]
              \cup UNION {[1..h -> {KV(Key(c), lit) :
                                      <<c, lit>> \in {"s", "n", "f"}
                                                        \X {Lits.three, Lits.f37, Lits.a}}] :
                          h \in 2..MaxMembers}
              \cup UNION {{<<KV(Key(c), Lits.null), st>>, <<st, KV(Key(c), Lits.null)>>} :
                          <<c, st>> \in {"l", "m", "i", "p"}
                                          \X {KV(Key("n"), Lits.one), KV(Key("s"), Lits.a)}}}

\* inputs that are not one well-formed JSON value, by the way they are made
JMalformed ==
    {[form |-> "malformed", stmts |-> <<>>, text |-> x] : x \in
        {<<"{", "i", "n", "v", "a", "l", "i", "d", " ", "j", "s", "o", "n", "}">>,
         <<"{", "\"", "n", "\"", ":", "1", "}", " ", "1">>, <<"{", "\"", "n", "\"", ":", "1", "}", "}">>, <<"1", " ", "1">>, <<"[", "]", " ", "x">>, <<"{", "\"", "n", "\"", ":", "1", "}", "x">>,
         <<"{", "\"", "n">>, <<"\"", "a">>, <<"{", "\"", "n", "\"", ":", "1">>, <<"[", "1">>, <<"[">>, <<"{">>,
         <<"{", "\"", "n", "\"", " ", "1", "}">>, <<"{", "\"", "n", "\"", ":", "1", " ", "\"", "s", "\"", ":", "\"", "a", "\"", "}">>, <<"[", "1", " ", "1", "]">>,
         <<"{", "\"", "n", "\"", ":", "1", ",", "}">>, <<"[", "1", ",", "]">>,
         <<"x">>, <<"{", "\"", "n", "\"", ":", "x", "}">>, <<"[", "x", "]">>, <<>>, <<" ">>}}

\* well-formed JSON values that are not objects
JPlain ==
    {[form |-> "plain", stmts |-> <<KV(<<>>, lit)>>, text |-> lit.text] : lit \in JLits}


TKeyText(form, key) == IF form = "quoted" THEN Quote(key) ELSE key
TStmtText(form, st) ==
    IF st.kind = "kv" THEN TKeyText(form, st.key) \o <<" ", "=", " ">> \o st.text
    ELSE <<"[">> \o Join([j \in 1..Len(st.path) |-> TKeyText(form, st.path[j])], <<".">>)
         \o <<"]">>
TRender(form, stmts) ==
    Join([j \in 1..Len(stmts) |-> TStmtText(form, stmts[j])], <<"\n">>)

TStmts ==
    {KV(Key("n"), Lits.one), KV(Key("n"), Lits.f37), KV(Key("f"), Lits.three), KV(Key("f"), Lits.f37),
     KV(Key("k"), Lits.one), KV(Key("k"), Lits.a), KV(Key("s"), Lits.a),
     Hdr(<<>>), Hdr(<<Key("a")>>), Hdr(<<Key("a"), Key("b")>>), Hdr(<<Key("a"), Key("k")>>),
     Hdr(<<Key("i")>>)}

\* documents of up to MaxStmts of these statements, and of one statement
\* that gives a scalar field a literal of any kind
TDocs ==
    {[form |-> fm, stmts |-> q, text |-> TRender(fm, q)] :
        <<fm, q>> \in {"bare", "quoted"}
                        \X ((SeqsUpTo(TStmts, MaxStmts) \ {<<>>})
                              \cup {<<KV(Key(c), lit)>> :
                                       <<c, lit>> \in {"s", "n", "u", "f", "o"}
                                         \X {Lits.a, Lits.one, Lits.f37, Lits.true,
                                               Lits.emptyArr, Lits.neg5, Lits.e5}})}

\* inputs that are not a sequence of table headers and key/value
\* statements, by the way they are made
TMalformed ==
    {[form |-> "malformed", stmts |-> <<>>, text |-> x] : x \in
        {<<"i", "n", "v", "a", "l", "i", "d", " ", "=", " ", "t", "o", "m", "l", "]">>, <<"\"", "n", "\"", " ", "=", " ", "1", "]">>, <<"\"", "n", "\"", " ", "=", " ">>, <<"\"", "n", "\"", " ", "1">>, <<"=", " ", "1">>, <<"\"", "n", "\"", " ", "=", " ", "1", " ", "\"", "s", "\"", " ", "=", " ", "\"", "a", "\"">>,
         <<"[", "\"", "a", "\"">>, <<"\"", "n", "\"", " ", "=", " ", "[", "1">>, <<"]">>, <<"\"", "n", "\"", " ", "=", " ", "\"", "a">>}}

\* documents of one member for the records TTagged and TOuter: a key that
\* is a declared name, a tag or a part of one, alone or inside the member in
TaggedDocs ==
    LET keys  == {<<"X">>, <<"-">>, <<"y">>, <<"Y">>, <<"Z">>, <<"w">>,
                  <<"y", ",", "o", "m", "i", "t", "e", "m", "p", "t", "y">>}
        stmts == {KV(key, lit) : <<key, lit>> \in keys \X {Lits.a, Lits.one, Lits.true}}
        In(st) == KV(<<"i", "n">>, Lit(JRender(<<st>>), PObj([key \in {st.key} |-> st.val])))
    IN  [JSON |-> {[form |-> "json", stmts |-> <<st>>, text |-> JRender(<<st>>)] :
                      st \in stmts \cup {In(x) : x \in stmts}},
         TOML |-> {[form |-> fm, stmts |-> <<st>>, text |-> TRender(fm, <<st>>)] :
                      <<fm, st>> \in {"bare", "quoted"} \X stmts}]

JSONInputs == JDocs \cup JMalformed \cup JPlain \cup TaggedDocs.JSON

TOMLInputs == TDocs \cup TMalformed \cup TaggedDocs.TOML

\* the arguments v of Unmarshal
Destinations ==
    {[mode |-> "ptr", type |-> TRec, val |-> ZeroRec],
     [mode |-> "ptr", type |-> TRec, val |-> PopRec],
     [mode |-> "value", type |-> TRec, val |-> ZeroRec],
     [mode |-> "nilptr", type |-> TPtr(TRec), val |-> VNilPtr]}

\* the arguments v for the documents of TaggedDocs
TaggedDestinations ==
    {[mode |-> "ptr", type |-> TTagged, val |-> TaggedRec(FALSE)],
     [mode |-> "ptr", type |-> TOuter, val |-> VStruct(<<TaggedRec(FALSE)>>)],
     [mode |-> "value", type |-> TInterface, val |-> VInvalid]}

PlainDestinations ==
    {[mode |-> "ptr", type |-> t, val |-> Zero(t)] :
        t \in {TString, TInt, TUint, TFloat, TBool, TSlice(TString), TMap(TInt),
               TPtr(TInt), TInterface, TArray(2, TInt)}}

(***************************************************************************)
(* The calls.  One caller makes one call on a codec, or a Marshal and then *)
(* an Unmarshal of its output into a zero value of the same type, as the   *)
(* tests do.  codec and op name the last call, orig is the value given to  *)
(* Marshal, data the bytes Marshal returned or Unmarshal was given, doc    *)
(* the document those bytes were written from, pre the argument v as it    *)
(* was before Unmarshal, dest the storage behind it after the call, tree   *)
(* the Value the parser built, ret what the call returned ("nil",          *)
(* "error", or "panic" when it did not return), stage how far Unmarshal    *)
(* got.  For a caller that decodes one document after another into the    *)
(* same record, orig is the record as it was before the first call and     *)
(* recent the member each field's wire name had in the latest successful   *)
(* decode whose Table held it.                                             *)
(***************************************************************************)
\* no lexer or parser of its own is in the caller's hands
NoLexer == [pos |-> 0, emitted |-> <<>>]
NoParser == [loop |-> "none", status |-> "none", p |-> [token |-> tokenEOF, pos |-> 0],
             acc |-> <<>>, iter |-> 0]

Init ==
    /\ codec = "none"
    /\ op = "init"
    /\ orig = [type |-> TInterface, val |-> VInvalid]
    /\ data = <<>>
    /\ doc = [form |-> "none", stmts |-> <<>>, text |-> <<>>]
    /\ pre = [mode |-> "value", type |-> TInterface, val |-> VInvalid]
    /\ dest = VInvalid
    /\ tree = PNull
    /\ ret = "nil"
    /\ stage = "none"
    /\ recent = <<>>
    /\ lexer = NoLexer
    /\ parser = NoParser

Marshalled(name, nv, r) ==
    /\ codec' = name
    /\ op' = "Marshal"
    /\ orig' = nv
    /\ data' = r.bytes
    /\ ret' = r.err
    /\ UNCHANGED <<doc, pre, dest, tree, stage, recent, lexer, parser>>

Called(name, opname, d, v, r, t) ==
    /\ codec' = name
    /\ op' = opname
    /\ data' = d.text
    /\ doc' = d
    /\ pre' = v
    /\ dest' = r.val
    /\ tree' = t
    /\ ret' = r.err
    /\ stage' = r.stage
    /\ UNCHANGED <<orig, lexer, parser>>

Unmarshalled(name, opname, d, v, r, t) ==
    Called(name, opname, d, v, r, t) /\ UNCHANGED recent

JTree(input) ==
    The({IF r.ok THEN r.val ELSE PNull : r \in {JparseValue(input, JnewParser(input))}})

TTree(input) ==
    The({IF r.err = "nil" THEN r.val ELSE PNull : r \in {TparseTable(input, TnewParser(input))}})

JSONMarshal ==
    /\ op = "init"
    /\ \E nv \in NativeValues, rev \in BOOLEAN :
          Marshalled("JSON", nv, JMarshal(nv, rev))

TOMLMarshal ==
    /\ op = "init"
    /\ \E nv \in NativeValues, rev \in BOOLEAN :
          Marshalled("TOML", nv, TMarshal(nv, rev))

Result(t) == [mode |-> "ptr", type |-> t, val |-> Zero(t)]
Output == [form |-> "output", stmts |-> <<>>, text |-> data]

\* var result T; err = serializer.Unmarshal(data, &result)
JSONRoundTrip ==
    /\ op = "Marshal" /\ codec = "JSON" /\ ret = "nil"
    /\ \E nd \in Choices :
          Unmarshalled("JSON", "RoundTrip", Output, Result(orig.type),
                       JUnmarshal(data, Result(orig.type), nd), JTree(data))

TOMLRoundTrip ==
    /\ op = "Marshal" /\ codec = "TOML" /\ ret = "nil"
    /\ \E nd \in Choices :
          Unmarshalled("TOML", "RoundTrip", Output, Result(orig.type),
                       TUnmarshal(data, Result(orig.type), nd), TTree(data))

JSONUnmarshal ==
    /\ op = "init"
    /\ \E d \in JSONInputs, nd \in Choices :
          \E v \in IF d.form = "plain" THEN PlainDestinations
                    ELSE IF d \in TaggedDocs.JSON THEN TaggedDestinations
                    ELSE Destinations :
              Unmarshalled("JSON", "Unmarshal", d, v, JUnmarshal(d.text, v, nd), JTree(d.text))

TOMLUnmarshal ==
    /\ op = "init"
    /\ \E d \in TOMLInputs, nd \in Choices :
          \E v \in IF d \in TaggedDocs.TOML THEN TaggedDestinations ELSE Destinations :
              Unmarshalled("TOML", "Unmarshal", d, v, TUnmarshal(d.text, v, nd), TTree(d.text))

(***************************************************************************)
(* package serializer: the factory.  A result is [err, format]: the error  *)
(* returned and the Format() of the codec returned, "none" when none is.   *)
(***************************************************************************)
\* a factory that takes the format name in any case
NewAnyCase(format) ==
    IF Len(format) # 4 THEN [err |-> "ErrUnsupportedFormat", format |-> "none"]
    ELSE CASE /\ format[1] \in {"j", "J"} /\ format[2] \in {"s", "S"}
              /\ format[3] \in {"o", "O"} /\ format[4] \in {"n", "N"} ->
                 [err |-> "nil", format |-> "JSON"]
           [] /\ format[1] \in {"t", "T"} /\ format[2] \in {"o", "O"}
              /\ format[3] \in {"m", "M"} /\ format[4] \in {"l", "L"} ->
                 [err |-> "nil", format |-> "TOML"]
           [] OTHER -> [err |-> "ErrUnsupportedFormat", format |-> "none"]

New(format) ==
    CASE format \in {<<"j", "s", "o", "n">>, <<"J", "S", "O", "N">>} ->
            [err |-> "nil", format |-> "JSON"]
      [] format \in {<<"t", "o", "m", "l">>, <<"T", "O", "M", "L">>} ->
            [err |-> "nil", format |-> "TOML"]
      [] OTHER -> [err |-> "ErrUnsupportedFormat", format |-> "none"]

\* NewGin, with Format() of the GinSerializer it returns
NewGin(format) ==
    The({IF s.err # "nil" THEN [err |-> s.err, format |-> "none"]
         ELSE [err |-> "nil", format |-> s.format] :
         s \in {New(format)}})

\* the names the factory is asked for
FormatNames ==
    {<<"j", "s", "o", "n">>, <<"J", "S", "O", "N">>, <<"t", "o", "m", "l">>,
     <<"T", "O", "M", "L">>, <<"J", "s", "o", "n">>, <<"T", "o", "m", "l">>,
     <<"j", "s", "O", "N">>, <<"y", "a", "m", "l">>, <<"x", "m", "l">>,
     <<"j", "s", "o", "n", " ">>, <<"j", "s", "o">>, <<>>}

Made(opname, format, r) ==
    /\ codec' = r.format
    /\ op' = opname
    /\ data' = format
    /\ ret' = r.err
    /\ UNCHANGED <<orig, doc, pre, dest, tree, stage, recent, lexer, parser>>

FactoryNew ==
    /\ op = "init"
    /\ \E format \in FormatNames : Made("New", format, New(format))

FactoryNewGin ==
    /\ op = "init"
    /\ \E format \in FormatNames : Made("NewGin", format, NewGin(format))

Next ==
    \/ JSONMarshal
    \/ TOMLMarshal
    \/ JSONRoundTrip
    \/ TOMLRoundTrip
    \/ JSONUnmarshal
    \/ TOMLUnmarshal
    \/ FactoryNew
    \/ FactoryNewGin

Spec == Init /\ [][Next]_vars

(***************************************************************************)
(* One document after another decoded into the same record, for as long    *)
(* as the calls return nil.                                                *)
(***************************************************************************)
NoMember == [k |-> "none"]

\* the documents of such a caller, by codec
AgainDocs ==
    LET both == {<<>>, <<KV(Key("n"), Lits.one)>>, <<KV(Key("s"), Lits.a)>>,
                 <<KV(Key("l"), Lits.emptyArr)>>, <<KV(Key("l"), Lits.arrA)>>,
                 <<KV(Key("z"), Lits.one)>>}
        more == {<<KV(Key("l"), Lits.null)>>, <<KV(Key("p"), Lits.three)>>,
                 <<KV(Key("p"), Lits.null)>>, <<KV(Key("n"), Lits.a)>>,
                 <<KV(Key("n"), Lits.one), KV(Key("s"), Lits.a)>>}
    IN  [JSON |-> {[form |-> "json", stmts |-> q, text |-> JRender(q)] : q \in both \cup more},
         TOML |-> {[form |-> fm, stmts |-> q, text |-> TRender(fm, q)] :
                      <<fm, q>> \in {"bare", "quoted"} \X both}]

AgainInit ==
    /\ codec = "none"
    /\ op = "init"
    /\ orig \in Typed(TRec, {ZeroRec, PopRec})
    /\ data = <<>>
    /\ doc = [form |-> "none", stmts |-> <<>>, text |-> <<>>]
    /\ pre = [mode |-> "ptr", type |-> TRec, val |-> orig.val]
    /\ dest = orig.val
    /\ tree = PNull
    /\ ret = "nil"
    /\ stage = "none"
    /\ recent = [j \in 1..Len(TRec.fields) |-> NoMember]
    /\ lexer = NoLexer
    /\ parser = NoParser

\* err := serializer.Unmarshal(data, &rec), rec the record of the call before
DecodedAgain(name, tagKey, d, v, r, t) ==
    /\ Called(name, "Decode", d, v, r, t)
    /\ recent' = [j \in 1..Len(TRec.fields) |->
                    IF r.err = "nil" /\ t.k = "obj"
                          /\ WireName(TRec.fields[j], tagKey).name \in DOMAIN t.o
                    THEN t.o[WireName(TRec.fields[j], tagKey).name]
                    ELSE recent[j]]

JSONDecodeAgain ==
    /\ ret = "nil"
    /\ \E d \in AgainDocs.JSON, nd \in Choices :
          \E v \in {[mode |-> "ptr", type |-> TRec, val |-> dest]} :
              DecodedAgain("JSON", "json", d, v, JUnmarshal(d.text, v, nd), JTree(d.text))

TOMLDecodeAgain ==
    /\ ret = "nil"
    /\ \E d \in AgainDocs.TOML, nd \in Choices :
          \E v \in {[mode |-> "ptr", type |-> TRec, val |-> dest]} :
              DecodedAgain("TOML", "toml", d, v, TUnmarshal(d.text, v, nd), TTree(d.text))

AgainNext ==
    \/ JSONDecodeAgain
    \/ TOMLDecodeAgain

AgainSpec == AgainInit /\ [][AgainNext]_vars

(***************************************************************************)
(* A lexer on its own: newLexer(input) and then calls of next(), as the    *)
(* parsers make them.  data is the input, lexer.pos the cursor, and        *)
(* lexer.emitted the calls so far: the token each returned and the cursor  *)
(* before and after it.                                                    *)
(***************************************************************************)
MaxInputLen == 3
MaxCalls == 8

LexAlphabet == {"\"", "\\", "a", "1", "-", "\n", " ", "."}

\* every short text over the alphabet, and texts with the longer lexemes
LexInputs ==
    SeqsUpTo(LexAlphabet, MaxInputLen)
      \cup {TRender("quoted", <<KV(Key("a"), Lits.one), KV(Key("b"), Lits.three)>>),
            JRender(<<KV(Key("a"), Lits.neg5), KV(Key("b"), Lits.null)>>),
            Lits.true.text, <<"t", "r", "u">>, <<"f", "a", "l", "s", "e">>,
            <<"1", "e", "5">>, <<"-", "5", ".", "5">>, <<"1", "T">>, <<"1", "Z">>,
            <<"1", ":", "2">>, <<"1", "-", "2">>, <<"5", " ", "-", "5">>,
            <<"2", "0", "0", "6", "-", "0", "1", "-", "0", "2", "T",
              "1", "5", ":", "0", "4", ":", "0", "5", "Z">>,
            <<"\"", "a", "\\", "\"", "b", "\"", " ", "1">>,
            <<"\"", "a", "\n", "b", "\"", "\n", "\"", "\"">>,
            <<"[", "\"", "a", "\"", ".", "\"", "b", "\"", "]", "\n", "=", ",">>}

LexInit ==
    /\ codec \in {"JSON", "TOML"}
    /\ op = "newLexer"
    /\ data \in LexInputs
    /\ lexer = NoLexer
    /\ orig = [type |-> TInterface, val |-> VInvalid]
    /\ doc = [form |-> "none", stmts |-> <<>>, text |-> <<>>]
    /\ pre = [mode |-> "value", type |-> TInterface, val |-> VInvalid]
    /\ dest = VInvalid
    /\ tree = PNull
    /\ ret = "nil"
    /\ stage = "none"
    /\ recent = <<>>
    /\ parser = NoParser

\* tok := l.next()
LexerCalled(name, r) ==
    /\ codec = name
    /\ Len(lexer.emitted) < MaxCalls
    /\ op' = "next"
    /\ lexer' = [pos     |-> r.pos,
                 emitted |-> Append(lexer.emitted,
                                    [token |-> r.token, from |-> lexer.pos, to |-> r.pos])]
    /\ UNCHANGED <<codec, orig, data, doc, pre, dest, tree, ret, stage, recent, parser>>

JSONLexerNext == LexerCalled("JSON", Jnext(data, lexer.pos))

TOMLLexerNext == LexerCalled("TOML", Tnext(data, lexer.pos))

LexNext ==
    \/ JSONLexerNext
    \/ TOMLLexerNext

LexSpec == LexInit /\ [][LexNext]_vars

(***************************************************************************)
(* A parse, one loop iteration at a time.  parser.loop names the loop      *)
(* (parseObject, parseArray, parseTable or parseTablePath) the top-level   *)
(* parse of data is in, parser.p is the parser (cursor and current token)  *)
(* at the head of the next iteration, parser.acc what the loop has built   *)
(* (obj, arr, [table, current] or path), parser.iter the iterations made,  *)
(* and parser.status tells whether the loop is still running or how the    *)
(* function left it ("returned", "error", "panic").  A call an iteration   *)
(* makes (parseValue, and the loops inside it) is part of the iteration.   *)
(***************************************************************************)
Iter(status, p, acc) == [status |-> status, p |-> p, acc |-> acc]

\* one pass through the for loop of parseObject
JobjectIteration(input, p, obj) ==
    IF p.token.typ # "String" THEN Iter("error", p, obj)
    ELSE The({
        IF p1.token.typ # "Colon" THEN Iter("error", p1, obj)
        ELSE The({
            IF ~r.ok THEN Iter("error", r.p, obj)
            ELSE IF r.p.token.typ = "RightBrace"
                 THEN Iter("returned", JpNext(input, r.p), MapPut(obj, p.token.value, r.val))
            ELSE IF r.p.token.typ # "Comma"
                 THEN Iter("error", r.p, MapPut(obj, p.token.value, r.val))
            ELSE Iter("running", JpNext(input, r.p), MapPut(obj, p.token.value, r.val)) :
            r \in {JparseValue(input, JpNext(input, p1))}}) :
        p1 \in {JpNext(input, p)}})

\* one pass through the for loop of parseArray
JarrayIteration(input, p, arr) ==
    The({IF ~r.ok THEN Iter("error", r.p, arr)
         ELSE IF r.p.token.typ = "RightBracket"
              THEN Iter("returned", JpNext(input, r.p), Append(arr, r.val))
         ELSE IF r.p.token.typ # "Comma" THEN Iter("error", r.p, Append(arr, r.val))
         ELSE Iter("running", JpNext(input, r.p), Append(arr, r.val)) :
         r \in {JparseValue(input, p)}})

TpathIterationStuck(input, p, path) ==
    IF p.token.typ # "String" THEN Iter("returned", p, path)
    ELSE Iter("running", p, Append(path, p.token.value))

\* one pass through the for loop of parseTablePath
TpathIteration(input, p, path) ==
    IF p.token.typ # "String" THEN Iter("returned", p, path)
    ELSE The({IF p1.token.typ # "Dot" THEN Iter("returned", p1, Append(path, p.token.value))
              ELSE Iter("running", TpNext(input, p1), Append(path, p.token.value)) :
              p1 \in {TpNext(input, p)}})

\* the loop test of parseTable and one pass through its body; acc is
\* [table, current], current the path of the current table
TtableIteration(input, p, acc) ==
    CASE p.token.typ = "EOF" -> Iter("returned", p, acc)
      [] p.token.typ = "LeftBracket" ->
            The({
                IF tp.p.token.typ # "RightBracket" THEN Iter("error", tp.p, acc)
                ELSE The({
                    IF tp.path = <<>> THEN Iter("panic", p2, acc)
                    ELSE The({
                        IF nav.err # "nil"
                        THEN Iter(nav.err, p2, [table |-> nav.table, current |-> acc.current])
                        ELSE Iter("running", p2, [table |-> nav.table, current |-> nav.current]) :
                        nav \in {Navigate(acc.table, tp.path, 1)}}) :
                    p2 \in {TpNext(input, tp.p)}}) :
                tp \in {TparseTablePath(input, TpNext(input, p), <<>>)}})
      [] p.token.typ = "String" ->
            The({
                IF p1.token.typ # "Equals" THEN Iter("error", p1, acc)
                ELSE The({
                    IF ~r.ok THEN Iter("error", r.p, acc)
                    ELSE The({
                        IF r.p.token.typ \notin {"Newline", "EOF"} THEN Iter("error", r.p, a1)
                        ELSE Iter("running", TpNext(input, r.p), a1) :
                        a1 \in {[acc EXCEPT !.table =
                                    WithTableAt(acc.table, acc.current,
                                        PObj(MapPut(TableAt(acc.table, acc.current).o,
                                                    p.token.value, r.val)))]}}) :
                    r \in {TparseValue(input, TpNext(input, p1))}}) :
                p1 \in {TpNext(input, p)}})
      [] OTHER -> Iter("error", p, acc)

\* the loops the parse of an input enters at the top level, and the parser
\* as the function reaches the loop: parseObject and parseArray after
\* p.next() over the bracket and the test for an empty collection,
\* parseTable at once, parseTablePath after the [ of a header
Entered(loop, input) ==
    CASE loop = "parseObject" -> JnewParser(input).token.typ = "LeftBrace"
      [] loop = "parseArray" -> JnewParser(input).token.typ = "LeftBracket"
      [] loop = "parseTablePath" -> TnewParser(input).token.typ = "LeftBracket"
      [] OTHER -> TRUE

Enter(loop, input) ==
    CASE loop \in {"parseObject", "parseArray"} ->
            The({IF p1.token.typ = (IF loop = "parseObject" THEN "RightBrace" ELSE "RightBracket")
                 THEN Iter("returned", JpNext(input, p1), <<>>)
                 ELSE Iter("running", p1, <<>>) :
                 p1 \in {JpNext(input, JnewParser(input))}})
      [] loop = "parseTablePath" -> Iter("running", TpNext(input, TnewParser(input)), <<>>)
      [] OTHER -> Iter("running", TnewParser(input), [table |-> PObj(<<>>), current |-> <<>>])

Loops ==
    [parseObject |-> "JSON", parseArray |-> "JSON", parseTable |-> "TOML",
     parseTablePath |-> "TOML"]

\* the inputs parsed: the documents of the calls, and headers and
\* collections that keep a loop running longer
ParseInputs ==
    {d.text : d \in JSONInputs \cup TMalformed \cup TaggedDocs.TOML
                      \cup {x \in TDocs : Len(x.stmts) <= MaxMembers}}
      \cup {<<"[">> \o Join([j \in 1..h |-> c], <<",">>) \o <<"]">> :
               <<h, c>> \in (1..(MaxMembers + 1)) \X {Lits.one.text, Lits.a.text, Lits.arrA.text}}
      \cup {<<"[">> \o Join([j \in 1..h |-> Lits.a.text], sep) \o tl :
               <<h, sep, tl>> \in (1..(MaxMembers + 1)) \X {<<".">>, <<" ">>, <<".", ".">>}
                                    \X {<<"]">>, <<>>, <<".", "]">>}}

ParseInit ==
    /\ data \in ParseInputs
    /\ \E loop \in DOMAIN Loops :
          /\ Entered(loop, data)
          /\ codec = Loops[loop]
          /\ parser = [loop |-> loop, status |-> Enter(loop, data).status,
                       p |-> Enter(loop, data).p, acc |-> Enter(loop, data).acc, iter |-> 0]
    /\ op = "parse"
    /\ lexer = NoLexer
    /\ orig = [type |-> TInterface, val |-> VInvalid]
    /\ doc = [form |-> "none", stmts |-> <<>>, text |-> <<>>]
    /\ pre = [mode |-> "value", type |-> TInterface, val |-> VInvalid]
    /\ dest = VInvalid
    /\ tree = PNull
    /\ ret = "nil"
    /\ stage = "none"
    /\ recent = <<>>

\* the loop goes through its body once more
Iterated(loop, r) ==
    /\ parser.loop = loop
    /\ parser.status = "running"
    /\ parser' = [loop |-> loop, status |-> r.status, p |-> r.p, acc |-> r.acc,
                  iter |-> parser.iter + 1]
    /\ UNCHANGED <<codec, op, orig, data, doc, pre, dest, tree, ret, stage, recent, lexer>>

ObjectIterated == Iterated("parseObject", JobjectIteration(data, parser.p, parser.acc))

ArrayIterated == Iterated("parseArray", JarrayIteration(data, parser.p, parser.acc))

TableIterated == Iterated("parseTable", TtableIteration(data, parser.p, parser.acc))

TablePathIterated == Iterated("parseTablePath", TpathIteration(data, parser.p, parser.acc))

ParseNext ==
    \/ ObjectIterated
    \/ ArrayIterated
    \/ TableIterated
    \/ TablePathIterated

\* the caller is one goroutine that runs the loop it is in without waiting
\* for anything: an iteration that can be made is made
ParseSpec == ParseInit /\ [][ParseNext]_vars /\ WF_vars(ParseNext)

(***************************************************************************)
(* Properties                                                              *)
(***************************************************************************)
Decoded(name) == op = "Unmarshal" /\ codec = name /\ pre.mode = "ptr"

\* the native scalar a parsed scalar denotes
ScalarOf(value) ==
    CASE value.k = "str" -> VStr(value.s)
      [] value.k = "int" -> VInt(value.i)
      [] value.k = "flt" -> VFloat(value.f)
      [] OTHER -> VBool(value.k = "bool" /\ value.b)

WireNames == {TRec.fields[j].tag.json : j \in 1..Len(TRec.fields)}

\* the value of a key/value statement has the kind of the field of TRec
\* its key names
Matches(st) ==
    st.key \in WireNames /\ ScalarOf(st.val).kind = TRec.fields[FieldOf(st.key)].type.kind

\* C1: JSON round trip: for every record value v built only from supported
\* field kinds, Unmarshal(Marshal(v), &result) returns no error and leaves
\* result deep-equal to v.
JSONRoundTripIdentity ==
    (op = "RoundTrip" /\ codec = "JSON" /\ orig.type.kind = "struct"
        /\ orig \in SupportedValues)
    => (ret = "nil" /\ DeepEqual(dest, orig.val))

\* C2: TOML round trip: for every record value v built only from supported
\* field kinds, Unmarshal(Marshal(v), &result) returns no error and leaves
\* result deep-equal to v.
TOMLRoundTripIdentity ==
    (op = "RoundTrip" /\ codec = "TOML" /\ orig.type.kind = "struct"
        /\ orig \in SupportedValues)
    => (ret = "nil" /\ DeepEqual(dest, orig.val))

\* C3: JSON Unmarshal returns an error for every input that is not exactly
\* one well-formed JSON value.
JSONRejectsMalformed ==
    (Decoded("JSON") /\ doc.form = "malformed") => ret = "error"

\* C4: TOML Unmarshal returns an error for `invalid = toml]` and for every
\* other input that is not a sequence of well-formed table headers and
\* key/value statements.
TOMLRejectsMalformed ==
    (Decoded("TOML") /\ doc.form = "malformed") => ret = "error"

\* C5: no call of Marshal or Unmarshal of either codec ends in a panic.
NoRuntimeFault == ret # "panic"

\* the statements of a document before its first table header
TopLevel(stmts) ==
    SubSeq(stmts, 1,
           IF \E j \in 1..Len(stmts) : stmts[j].kind = "hdr"
           THEN (CHOOSE j \in 1..Len(stmts) :
                    stmts[j].kind = "hdr" /\ \A h \in 1..(j - 1) : stmts[h].kind = "kv") - 1
           ELSE Len(stmts))

\* several key/value statements with distinct keys, each value of the kind
\* of the field it names, optionally followed by the header [i] and one
\* statement for the field k of that table
PlainDocument(stmts) ==
    LET top  == TopLevel(stmts)
        rest == SubSeq(stmts, Len(top) + 1, Len(stmts))
    IN  /\ Len(top) >= 2
        /\ \A j \in 1..Len(top) : Matches(top[j])
        /\ \A j, h \in 1..Len(top) : top[j].key = top[h].key => j = h
        /\ rest \in {<<>>, <<Hdr(<<Key("i")>>), KV(Key("k"), Lits.a)>>}

\* C6: a TOML document of several `key = value` statements with bare keys,
\* one per line, optionally followed by a [table] header and further
\* statements, decodes without error, and every field whose wire name
\* appears in the document receives the document's value.
TOMLDocumentDecodes ==
    (Decoded("TOML") /\ doc.form = "bare" /\ PlainDocument(doc.stmts))
    => /\ ret = "nil"
       /\ \A j \in 1..Len(TopLevel(doc.stmts)) :
             dest.fs[FieldOf(doc.stmts[j].key)] = ScalarOf(doc.stmts[j].val)
       /\ Len(TopLevel(doc.stmts)) < Len(doc.stmts)
             => dest.fs[FieldOf(Key("i"))] = VStruct(<<VStr(<<"a">>)>>)

\* the root in which the table tbl sits at the end of path
RECURSIVE Nest(_, _)
Nest(path, tbl) ==
    IF path = <<>> THEN tbl
    ELSE PObj([key \in {Head(path)} |-> Nest(Tail(path), tbl)])

\* C7: a header with path p1.p2...pn creates an empty Table at each missing
\* segment, the last included, and makes the last segment's Table the
\* current table: a header followed on the next line by `k = v` decodes to
\* a root in which the table at the path holds k = v.
TOMLHeaderCreatesTables ==
    (Decoded("TOML") /\ doc.form \in {"bare", "quoted"} /\ Len(doc.stmts) = 2
        /\ doc.stmts[1].kind = "hdr" /\ doc.stmts[1].path # <<>>
        /\ doc.stmts[2].kind = "kv")
    => /\ ret # "panic" /\ stage # "parse"
       /\ tree = Nest(doc.stmts[1].path,
                      PObj([key \in {doc.stmts[2].key} |-> doc.stmts[2].val]))

IsPrefix(a, b) == Len(a) <= Len(b) /\ SubSeq(b, 1, Len(a)) = a

\* the path of the header that statement i stands under
HeaderBefore(stmts, i) ==
    IF \E j \in 1..(i - 1) : stmts[j].kind = "hdr"
    THEN stmts[CHOOSE j \in 1..(i - 1) :
                 stmts[j].kind = "hdr" /\ \A h \in (j + 1)..(i - 1) : stmts[h].kind = "kv"].path
    ELSE <<>>

\* a header names a path on which an earlier statement put a scalar
Redeclares(stmts) ==
    \E i, j \in 1..Len(stmts) :
        /\ i < j /\ stmts[i].kind = "kv" /\ stmts[j].kind = "hdr"
        /\ IsPrefix(Append(HeaderBefore(stmts, i), stmts[i].key), stmts[j].path)

\* C8: when a table header names a path in which any segment already holds
\* a non-Table value, decode returns an error value rather than succeeding
\* or faulting.
TOMLRedeclarationIsError ==
    (Decoded("TOML") /\ doc.form \in {"bare", "quoted"} /\ Redeclares(doc.stmts))
    => ret = "error"

\* the one statement of a document that sets only the field with a wire name
Only(name) ==
    /\ doc.form \in {"json", "bare", "quoted"}
    /\ Len(doc.stmts) = 1 /\ doc.stmts[1].kind = "kv" /\ doc.stmts[1].key = name

\* the float64 equal to an integer
FloatOfInt(i) == NormFloat(i < 0, IF i < 0 THEN -i ELSE i, 0)

\* C9: in both codecs an Integer value decoded into a floating-point field
\* is accepted without error and the field becomes the equal float.
IntegerWidensToFloat ==
    (op = "Unmarshal" /\ pre.mode = "ptr" /\ Only(Key("f")) /\ doc.stmts[1].val.k = "int")
    => /\ ret = "nil"
       /\ dest.fs[FieldOf(Key("f"))] = VFloat(FloatOfInt(doc.stmts[1].val.i))

\* C10: in both codecs a Float value decoded into a signed or unsigned
\* integer field is a failure; the field is never set to a truncated
\* integer.
FloatIntoIntegerFails ==
    \A name \in {Key("n"), Key("u")} :
        (op = "Unmarshal" /\ pre.mode = "ptr" /\ Only(name) /\ doc.stmts[1].val.k = "flt")
        => /\ ret = "error"
           /\ dest.fs[FieldOf(name)] = pre.val.fs[FieldOf(name)]

\* the wire names of the pointer, slice, map and nested record fields
CompositeNames == {Key("l"), Key("m"), Key("i"), Key("p")}

\* a member the record takes: null for a composite field, or a scalar of
\* the kind of the field its key names
Agrees(key, value) ==
    \/ key \in CompositeNames /\ value = PNull
    \/ /\ key \in WireNames \ CompositeNames
       /\ value.k \in {"str", "int", "flt", "bool"}
       /\ ScalarOf(value).kind = TRec.fields[FieldOf(key)].type.kind

\* a JSON object with a null composite member, every member one the record
\* takes, decoded into the populated record
NullErasureCase ==
    /\ Decoded("JSON") /\ doc.form = "json" /\ pre.val = PopRec
    /\ tree.k = "obj"
    /\ \E c \in CompositeNames : c \in DOMAIN tree.o /\ tree.o[c] = PNull
    /\ \A key \in DOMAIN tree.o : Agrees(key, tree.o[key])

\* C11: decoding a Table in which a known field's key maps to Null into an
\* already-populated record returns no error and resets that field to its
\* zero value when the field is a pointer, a slice, a map or a nested
\* record, while the other present fields receive their decoded values.
NullErasesCompositeFields ==
    NullErasureCase
    => /\ ret = "nil"
       /\ \A key \in DOMAIN tree.o :
             dest.fs[FieldOf(key)] =
                IF key \in CompositeNames THEN Zero(TRec.fields[FieldOf(key)].type)
                ELSE ScalarOf(tree.o[key])

NullErasureSeen ==
    /\ NullErasureCase /\ ret = "nil"
    /\ DOMAIN tree.o = {Key("l"), Key("n")}
    /\ dest.fs[FieldOf(Key("l"))] = VNilSlice /\ dest.fs[FieldOf(Key("n"))] = VInt(1)

ScalarKinds == {"string", "int", "uint", "float", "bool"}

\* C12: a source Null decoded into a scalar target (a string, integer,
\* unsigned integer, float or boolean field, or such a variable) resets the
\* target to its zero value and returns no error.
NullResetsScalar ==
    /\ \A name \in {Key("s"), Key("n"), Key("u"), Key("f"), Key("o")} :
          (Decoded("JSON") /\ Only(name) /\ doc.stmts[1].val = PNull)
          => /\ ret = "nil"
             /\ dest.fs[FieldOf(name)] = Zero(TRec.fields[FieldOf(name)].type)
    /\ (Decoded("JSON") /\ doc.form = "plain" /\ doc.stmts[1].val = PNull
           /\ pre.type.kind \in ScalarKinds)
       => (ret = "nil" /\ dest = Zero(pre.type))

\* the native value a member of the kind of its field denotes
Expected(t, value) ==
    CASE value = PNull -> Zero(t)
      [] t.kind = "slice" -> VSlice([j \in 1..Len(value.a) |-> ScalarOf(value.a[j])])
      [] t.kind = "ptr" -> VPtr(ScalarOf(value))
      [] OTHER -> ScalarOf(value)

EmptyCollectionsDecode ==
    Decoded("JSON")
    => /\ (Only(Key("l")) /\ doc.stmts[1].val = PArr(<<>>))
          => (ret = "nil" /\ dest.fs[FieldOf(Key("l"))] = VSlice(<<>>))
       /\ (Only(Key("m")) /\ doc.stmts[1].val = PObj(<<>>))
          => (ret = "nil" /\ dest.fs[FieldOf(Key("m"))] = VMap(<<>>))
       /\ (doc.form = "plain" /\ tree = PArr(<<>>) /\ pre.type.kind = "slice")
          => (ret = "nil" /\ dest = VSlice(<<>>))
       /\ (doc.form = "plain" /\ tree = PObj(<<>>) /\ pre.type.kind = "map")
          => (ret = "nil" /\ dest = VMap(<<>>))

EmptyCollectionSeen ==
    /\ Decoded("JSON") /\ Only(Key("l")) /\ doc.stmts[1].val = PArr(<<>>)
    /\ pre.val.fs[FieldOf(Key("l"))] = VSlice(<<VStr(<<"a">>)>>)
    /\ ret = "nil" /\ ~dest.fs[FieldOf(Key("l"))].nil
    /\ Len(dest.fs[FieldOf(Key("l"))].elems) = 0

\* C15: Marshal of a nil slice yields `null` in JSON and `[]` in TOML,
\* Marshal of a nil map yields `null` in JSON and `{}` in TOML, and Marshal
\* of a nil pointer, nil interface or untyped nil yields `null` in both
\* codecs; a non-nil empty slice yields `[]` in both.
NilCollectionsEncode ==
    op = "Marshal"
    => /\ orig.val = VNilSlice
          => (ret = "nil" /\ data = IF codec = "JSON" THEN <<"n", "u", "l", "l">>
                                    ELSE <<"[", "]">>)
       /\ orig.val = VNilMap
          => (ret = "nil" /\ data = IF codec = "JSON" THEN <<"n", "u", "l", "l">>
                                    ELSE <<"{", "}">>)
       /\ orig.val \in {VNilPtr, VInvalid}
          => (ret = "nil" /\ data = <<"n", "u", "l", "l">>)
       /\ orig.val = VSlice(<<VNilIface, VIface(TInt, VInt(3))>>)
          => (ret = "nil" /\ data = IF codec = "JSON" THEN <<"[", "n", "u", "l", "l", ",", "3", "]">>
                                    ELSE <<"[", "n", "u", "l", "l", ",", " ", "3", "]">>)
       /\ orig.val = VSlice(<<>>)
          => (ret = "nil" /\ data = <<"[", "]">>)

NilSliceEncoded ==
    /\ op = "Marshal" /\ codec = "TOML" /\ orig.val = VNilSlice
    /\ ret = "nil" /\ data = <<"[", "]">>

\* the record of type TTagged in a destination or a result
TaggedIn(t, v) == IF t = TOuter THEN v.fs[1] ELSE v

WireNamesResolve ==
    /\ (op = "Marshal" /\ orig.type = TTagged)
       => /\ ret = "nil"
          /\ data = IF codec = "JSON"
                    THEN <<"{", "\"", "y", "\"", ":", "3", ",", "\"", "Z", "\"", ":",
                           "t", "r", "u", "e", "}">>
                    ELSE <<"y", " ", "=", " ", "3", "\n", "Z", " ", "=", " ",
                           "t", "r", "u", "e">>
    /\ (op = "Marshal" /\ orig.type = TOuter /\ codec = "JSON")
       => data = <<"{", "\"", "i", "n", "\"", ":", "{", "\"", "y", "\"", ":", "3", ",",
                   "\"", "Z", "\"", ":", "t", "r", "u", "e", "}", "}">>
    /\ (op = "RoundTrip" /\ orig.type = TTagged /\ codec = "JSON")
       => (ret = "nil" /\ dest = VStruct(<<VStr(<<>>), VInt(3), VBool(TRUE), VStr(<<>>)>>))
    /\ (op = "Unmarshal" /\ pre.mode = "ptr" /\ pre.type = TTagged /\ tree.k = "obj")
       => /\ (<<"y">> \in DOMAIN tree.o /\ tree.o[<<"y">>].k = "int")
             => (ret = "nil" /\ dest.fs[2] = VInt(tree.o[<<"y">>].i))
          /\ (<<"Z">> \in DOMAIN tree.o /\ tree.o[<<"Z">>].k = "bool")
             => (ret = "nil" /\ dest.fs[3] = VBool(tree.o[<<"Z">>].b))
          /\ DOMAIN tree.o \cap {<<"y">>, <<"Z">>} = {}
             => (ret = "nil" /\ dest = pre.val)

\* the member y of a TOML Table reached the field Y
WireNameSeen ==
    /\ op = "Unmarshal" /\ codec = "TOML" /\ pre.mode = "ptr" /\ pre.type = TTagged
    /\ ret = "nil" /\ tree = PObj([key \in {<<"y">>} |-> PInt(1)])
    /\ dest.fs[2] = VInt(1) /\ pre.val.fs[2] = VInt(3)

\* a value that is no number for a numeric field, no string for a string
\* field, no boolean for a bool field
Mismatched(kind, value) ==
    CASE kind \in {"int", "uint", "float"} -> value.k \in {"str", "bool", "arr", "obj"}
      [] kind = "string" -> value.k \in {"int", "flt", "bool", "arr", "obj"}
      [] kind = "bool" -> value.k \in {"str", "int", "flt", "arr", "obj"}
      [] OTHER -> FALSE

\* C18: in both codecs, decoding a document in which the key of an
\* integer-kind record field maps to a string literal (e.g. age =
\* "тридцать") returns a non-nil error; more generally a String, Boolean,
\* Array or Table value decoded into a numeric field, or a non-String value
\* into a string field, or a non-Boolean into a bool field, is an error.
ScalarMismatchFails ==
    \A name \in {Key("s"), Key("n"), Key("u"), Key("f"), Key("o")} :
        (op = "Unmarshal" /\ pre.mode = "ptr" /\ pre.type = TRec /\ Only(name)
            /\ Mismatched(TRec.fields[FieldOf(name)].type.kind, doc.stmts[1].val))
        => ret = "error"

\* C19: Unmarshal of either codec called with a destination that is not a
\* pointer (an untyped nil included) returns an error, the usage error
\* unless the input failed to parse, and writes nothing; it does not
\* fault.
NonPointerIsUsageError ==
    (op = "Unmarshal" /\ pre.mode = "value")
    => /\ ret = "error"
       /\ stage \in {"parse", "usage"}
       /\ dest = pre.val

\* C20: New(format) returns a codec whose Format() is "JSON" exactly when
\* format is "json" or "JSON", a codec whose Format() is "TOML" exactly
\* when format is "toml" or "TOML", and for every other name (mixed case
\* such as "Json" included) no codec together with ErrUnsupportedFormat;
\* NewGin(format) fails in exactly the same cases and its Format() equals
\* that of New(format).
FactoryByFormatName ==
    op \in {"New", "NewGin"}
    => /\ codec = "JSON" <=> data \in {<<"j", "s", "o", "n">>, <<"J", "S", "O", "N">>}
       /\ codec = "TOML" <=> data \in {<<"t", "o", "m", "l">>, <<"T", "O", "M", "L">>}
       /\ codec \in {"JSON", "TOML"} <=> ret = "nil"
       /\ codec = "none" <=> ret = "ErrUnsupportedFormat"
       /\ codec \in {"JSON", "TOML", "none"}

MixedCaseRefused ==
    /\ op = "NewGin" /\ data = <<"J", "s", "o", "n">>
    /\ ret = "ErrUnsupportedFormat" /\ codec = "none"

\* the one member of a document of one key/value statement, as parsed
Member == IF doc.form = "plain" THEN tree ELSE tree.o[doc.stmts[1].key]

\* C21: in both parsers a Number token whose text contains a decimal point
\* or an exponent marker (e/E) becomes a Float value and any other Number
\* token an Integer value; in particular 1e5 parses to Float 100000 rather
\* than failing.
NumberLiteralsClassified ==
    (op = "Unmarshal" /\ doc.form \in {"json", "plain", "quoted"} /\ Len(doc.stmts) = 1
        /\ doc.stmts[1].kind = "kv" /\ doc.stmts[1].val.k \in {"int", "flt"}
        /\ (doc.form = "quoted" => doc.stmts[1].text[1] # "-"))
    => /\ stage # "parse"
       /\ Member = doc.stmts[1].val
       /\ Member.k = "flt" <=> IndexAny(doc.stmts[1].text, {".", "e", "E"}) # 0

\* C24: TOML Marshal of a record that contains a nested record emits, for
\* each leaf field of the nested record, one line `parent.child = value`
\* (the child's wire name prefixed by the parent's dotted path); each output
\* line has exactly one key followed by ` = ` and one value, and no line is
\* a bracketed [section] header.
NestedRecordFlattened ==
    (op = "Marshal" /\ codec = "TOML" /\ orig.type = TOuter)
    => /\ ret = "nil"
       /\ data = <<"i", "n", ".", "y", " ", "=", " ", "3", "\n",
                   "i", "n", ".", "Z", " ", "=", " ", "t", "r", "u", "e">>

\* field j of the record has a member in the parsed Table; what decoding
\* that member alone into the field gives
TagKey == IF codec = "JSON" THEN "json" ELSE "toml"
Present(j) == WireName(TRec.fields[j], TagKey).name \in DOMAIN tree.o
Alone(j, nd) ==
    setValue(TagKey, TRec.fields[j].type, pre.val.fs[j],
             tree.o[WireName(TRec.fields[j], TagKey).name], nd)
FailsAt(j) == Present(j) /\ \E nd \in Choices : Alone(j, nd).err # "nil"
RecordDecode ==
    /\ op = "Unmarshal" /\ pre.mode = "ptr" /\ pre.type = TRec
    /\ stage = "set" /\ tree.k = "obj"

\* C25: when decoding a record and the value for the field at declaration
\* index i fails to decode, Unmarshal returns that error at once; fields
\* declared after i are not written, and fields declared before i whose
\* keys were present keep their newly decoded values.
FirstErrorAborts ==
    (RecordDecode /\ \E j \in 1..Len(TRec.fields) : FailsAt(j))
    => LET i == CHOOSE j \in 1..Len(TRec.fields) :
                    FailsAt(j) /\ \A h \in 1..(j - 1) : ~FailsAt(h)
       IN  /\ ret = "error"
           /\ \A j \in (i + 1)..Len(TRec.fields) : dest.fs[j] = pre.val.fs[j]
           /\ \A j \in 1..(i - 1) :
                 IF Present(j) THEN \E nd \in Choices : dest.fs[j] = Alone(j, nd).val
                 ELSE dest.fs[j] = pre.val.fs[j]

\* {"s":"a","n":"a"} into the zero record: s was written, n failed
EarlierFieldKept ==
    /\ RecordDecode /\ codec = "JSON" /\ ret = "error"
    /\ FailsAt(2) /\ Present(1)
    /\ pre.val.fs[1] = VStr(<<>>) /\ dest.fs[1] = VStr(<<"a">>)

\* C28: in both codecs Unmarshal finishes lexing and parsing before the
\* first write to the destination: whenever Unmarshal returns an error
\* raised by the lexer/parser stage the destination is exactly as it was
\* before the call.
ParseBeforeWrite ==
    (op = "Unmarshal" /\ stage = "parse") => (ret # "nil" /\ dest = pre.val)

\* {"n":1 without its closing brace, into the populated record
ParseErrorSeen ==
    /\ op = "Unmarshal" /\ codec = "JSON" /\ stage = "parse" /\ ret = "error"
    /\ data = <<"{", "\"", "n", "\"", ":", "1">>
    /\ pre.mode = "ptr" /\ pre.val = PopRec /\ dest = PopRec

\* the calls of next() made so far, and the length of a token's text in
\* the input
Calls == 1..Len(lexer.emitted)
LexemeLen(tok) == IF tok.typ = "String" THEN Len(tok.value) + 2 ELSE Len(tok.value)

\* C22: the TOML lexer emits one Newline token for each newline character
\* outside a string and its whitespace skipping never consumes a newline:
\* a call that starts at a newline returns the Newline token for it, no
\* call steps over a newline before the token it returns, and the token
\* stream of "a" = 1, newline, "b" = 2 has a Newline token between the two
\* statements.
NewlineIsAToken ==
    codec = "TOML"
    => /\ \A j \in Calls :
             LET e == lexer.emitted[j]
             IN  /\ (e.from < Len(data) /\ data[e.from + 1] = "\n")
                    => (e.token.typ = "Newline" /\ e.to = e.from + 1)
                 /\ e.token.typ # "EOF"
                    => \A k \in (e.from + 1)..(e.to - LexemeLen(e.token)) : data[k] # "\n"
       /\ (data = TRender("quoted", <<KV(Key("a"), Lits.one), KV(Key("b"), Lits.three)>>)
             /\ Len(lexer.emitted) >= 4)
          => lexer.emitted[4].token.typ = "Newline"

\* C23: a lexeme scanned by the TOML lexer's readNumberOrDate is a
\* Timestamp (Date) token only when T, Z, - or : occurs after its first
\* character; a leading minus followed only by digits and an optional
\* fraction, such as -5, is a Number token.
TimestampNeedsLaterMark ==
    codec = "TOML"
    => \A j \in Calls :
          LET tok == lexer.emitted[j].token
          IN  tok.typ \in {"Number", "Date"}
              => (tok.typ = "Date"
                    <=> \E k \in 2..Len(tok.value) : tok.value[k] \in {"T", "Z", "-", ":"})

\* the characters a lexer steps over between tokens when no newline is
\* among them, and those a token can start with
Blanks == {" ", "\t", "\r", "\f"} \cup (IF codec = "JSON" THEN {"\n"} ELSE {})
Starts ==
    {"[", "]", ",", "\"", "t", "f", "-"} \cup {DigitChars[d] : d \in 1..10}
      \cup (IF codec = "JSON" THEN {"{", "}", ":", "n"} ELSE {".", "=", "\n"})

\* the characters left to a call that starts with the cursor at from
Ahead(from) == {k \in (from + 1)..Len(data) : data[k] \notin Blanks}
First(from) == CHOOSE k \in Ahead(from) : \A h \in Ahead(from) : k <= h

\* the double quotes after the one at q that no backslash precedes
Closers(q) == {k \in (q + 1)..Len(data) : data[k] = "\"" /\ data[k - 1] # "\\"}

\* C26: in both lexers next() returns EOF when the cursor is at or past the
\* end of input, when the next non-skipped character starts no token, and
\* when a string is unterminated; once next() has returned EOF every later
\* call returns EOF again; across any sequence of calls the cursor never
\* decreases and never exceeds the input length.
EOFIsAbsorbing ==
    \A j \in Calls :
        LET e == lexer.emitted[j]
        IN  /\ e.from <= e.to /\ e.to <= Len(data)
            /\ (j > 1 /\ lexer.emitted[j - 1].token.typ = "EOF") => e.token.typ = "EOF"
            /\ Ahead(e.from) = {} => e.token.typ = "EOF"
            /\ (Ahead(e.from) # {} /\ data[First(e.from)] \notin Starts) => e.token.typ = "EOF"
            /\ (Ahead(e.from) # {} /\ data[First(e.from)] = "\""
                  /\ Closers(First(e.from)) = {})
               => (e.token.typ = "EOF" /\ e.to = Len(data))

\* 1, blank, a: a Number, then EOF at the a, twice, the cursor before it
EOFRepeated ==
    /\ codec = "JSON" /\ data = <<"1", " ", "a">> /\ Len(lexer.emitted) = 3
    /\ lexer.emitted[1].token.typ = "Number"
    /\ lexer.emitted[2].token.typ = "EOF" /\ lexer.emitted[3].token.typ = "EOF"
    /\ lexer.pos < Len(data)

\* C27: in both lexers a string token starts at a double quote and ends at
\* the first later double quote whose immediately preceding character is
\* not a backslash; its value is exactly the raw input text between the
\* two quotes (no escape sequence is translated), and "" yields a String
\* token with the empty value.
StringTokenBoundaries ==
    \A j \in Calls :
        LET e == lexer.emitted[j]
        IN  /\ e.token.typ = "String"
               => /\ data[e.to - Len(e.token.value) - 1] = "\"" /\ data[e.to] = "\""
                  /\ e.token.value = SubSeq(data, e.to - Len(e.token.value), e.to - 1)
            /\ (Ahead(e.from) # {} /\ data[First(e.from)] = "\""
                  /\ Closers(First(e.from)) # {})
               => LET q     == First(e.from)
                      close == CHOOSE k \in Closers(q) : \A h \in Closers(q) : k <= h
                  IN  /\ e.token = Tok("String", SubSeq(data, q + 1, close - 1))
                      /\ e.to = close
            /\ (data = <<"\"", "\"">> /\ j = 1) => e.token = Tok("String", <<>>)

\* "a\"b" 1: the value keeps the backslash and the quote after it
EscapedQuoteKept ==
    /\ codec = "TOML" /\ Len(lexer.emitted) = 1
    /\ data = <<"\"", "a", "\\", "\"", "b", "\"", " ", "1">>
    /\ lexer.emitted[1].token = Tok("String", <<"a", "\\", "\"", "b">>)
    /\ lexer.pos = 6

\* C29: for every finite input the parse stage of JSON Unmarshal and of
\* TOML Unmarshal terminates: every iteration of parseObject, parseArray,
\* parseTable and parseTablePath either returns or leaves the lexer cursor
\* further on than it found it, having consumed at least one token.
DecodeTerminates ==
    /\ [][parser'.status = "running" => parser'.p.pos > parser.p.pos]_vars
    /\ <>(parser.status # "running")

\* an object of two members: two iterations and the cursor at the end
TwoIterationsReturned ==
    /\ parser.loop = "parseObject" /\ parser.status = "returned" /\ parser.iter = 2
    /\ parser.p.pos = Len(data) /\ DOMAIN parser.acc = {Key("s"), Key("n")}

====
